---- MODULE Spec2Model ----
(***************************************************************************)
(* Webhook delivery core of svix-server: worker_loop, process_task,        *)
(* dispatch and the endpoint-health store (server/svix-server/src/         *)
(* worker.rs).  Every await of the source that touches the database, the   *)
(* shared store, the queue or the endpoint is one step, so that concurrent *)
(* deliveries interleave exactly where the source lets them.  The events   *)
(* poller of svix-bridge (bridge/svix-bridge/src/webhook_receiver/mod.rs,  *)
(* run_inner) is modelled beside it.                                       *)
(***************************************************************************)
EXTENDS Integers, Sequences, FiniteSets, Bags, TLC

\* ------------------------------------------------------------- bounds
\* Concurrent spawned deliveries (tokio::spawn per delivery).
NSlots == 2
\* Infrastructure faults (DB, store, queue errors; unreadable bodies) injected per run.
MaxErrs == 1
\* Manual retries requested through the API per run.
MaxManual == 1
\* Clock horizon, in the time unit of the retry schedule.
MaxTime == 2
\* The longer clock horizon, of the runs without a retry loop.
MaxWait == 4
\* Configured headers per endpoint.
MaxHeaders == 2
\* Rotated signing keys an endpoint still holds.
MaxOldKeys == 2
\* Messages in the event stream the bridge polls.
NEvents == 3
\* Messages the events API returns per poll.
MaxBatch == 2

Msgs == {"m1", "m2"}
Endps == {"e1", "e2"}

\* ---------------------------------------------------- program constants
\* JITTER_DELTA = 0.2, in percent.
JITTER_DELTA == 20
OP_WEBHOOKS_SEND_FAILING_EVENT_AFTER == 4

\* The sleep times of the bridge's poller, in milliseconds.
MIN_SLEEP == 10
MAX_SLEEP == 300000
NO_SLEEP == 0

NULL == 0 - 1

VARIABLES
    now,         \* Utc::now()
    cfg,         \* Configuration: retry_schedule, endpoint_failure_disable_after, store backend
    queue,       \* bag of [task, due]: tasks the queue holds, deliverable from `due`
    slots,       \* the spawned per-delivery tasks
    dests,       \* messagedestination table: <<msg, endp>> -> rows in insertion order
    attempts,    \* messageattempt table: bag of rows
    endpoint,    \* endpoint table: endp -> [disabled, first_failure_at]
    store,       \* SharedStore: endp -> failure record or NoRecord
    streaks,     \* history: endp -> first-failure stamps taken since its last success
    opw,         \* operational webhooks emitted: bag
    posts,       \* HTTP POSTs sent: <<msg, endp>> -> [Scheduled |-> n, Manual |-> n]
    acklog,      \* what ended spawned tasks so far: set of [kind, result, sent]
    errs,        \* faults injected so far
    manuals,     \* manual retries requested so far
    shutdown,    \* crate::SHUTTING_DOWN
    loop,        \* worker_loop: "running" | "sleeping" | "exited"
    conf,        \* the endpoint's delivery settings: whitelabel, headers, key, old_signing_keys
    request,     \* the request built last: keys signed with, signatures, headers as
                 \* generate_msg_headers returned them and as they are sent
    poller,      \* the bridge's run_inner: iterator, sleep_time, resp, position in the batch
    output       \* the polled messages handed to the bridge's output

vars == <<now, cfg, queue, slots, dests, attempts, endpoint, store, streaks, opw, posts,
          acklog, errs, manuals, shutdown, loop, conf, request, poller, output>>

\* ------------------------------------------------------------ queue tasks
MessageBatch(m, trig) ==
    [kind |-> "MessageBatch", msg_id |-> m, endpoint_id |-> "-",
     attempt_count |-> 0, trigger_type |-> trig]

MessageTask(m, e, n, trig) ==
    [kind |-> "MessageV1", msg_id |-> m, endpoint_id |-> e,
     attempt_count |-> n, trigger_type |-> trig]

\* ------------------------------------------------------- HTTP responses
\* What `client.post(..).send().await` and `res.bytes().await` can yield with
\* redirects disabled: a 2xx, a 3xx (returned as is), a 4xx/5xx, a transport
\* error, or a response whose body cannot be read.
Responses == {"2xx", "3xx", "4xx5xx", "transport", "body_err"}

\* res.status().is_success()
is_success(res) == res = "2xx"

\* res.error_for_status_ref().err(): an error for client and server errors only.
http_error(res) == res = "4xx5xx"

\* status of the attempt row: Success iff is_success; Fail on a transport error.
attempt_status(res) == IF res # "transport" /\ is_success(res) THEN "Success" ELSE "Fail"

\* The `attempt` value matched at worker.rs:376: Err on a transport error or an
\* http_error, Ok otherwise.
attempt_is_ok(res) == res # "transport" /\ ~http_error(res)


\* ------------------------------------------------------------- state
NoRecord == [first_failure_at |-> NULL, expires_at |-> NULL]

\* A dispatch future and its locals: the response, the destination row it read,
\* the jittered delay, a timestamp (next_attempt or first_failure_at).  `inserted`
\* records that this dispatch has inserted its attempt row; a slot's `infra` that
\* one of its statements returned an infrastructure error.
NoDispatch ==
    [pc |-> "none", res |-> "-", dest_ix |-> 0, duration |-> 0,
     at |-> NULL, inserted |-> FALSE]

NewDispatch == [NoDispatch EXCEPT !.pc = "post"]

IdleSlot ==
    [pc |-> "idle", task |-> MessageBatch("-", "-"), result |-> "-", infra |-> FALSE,
     endpoints |-> {}, disp |-> [e \in Endps |-> NoDispatch]]

Slots == 1 .. NSlots

FreeSlots == {s \in Slots : slots[s].pc = "idle"}

Min(S) == CHOOSE x \in S : \A y \in S : x <= y

\* Add one copy of x to bag B.
BagAdd(B, x) == B (+) SetToBag({x})

\* Remove one copy of x from bag B.
BagRemove(B, x) == B (-) SetToBag({x})

\* The msg_task a dispatch runs with (worker.rs:614-627): the V1 task itself, or
\* one derived from the batch with attempt_count = 0.
msg_task(s, e) ==
    MessageTask(slots[s].task.msg_id, e, slots[s].task.attempt_count,
                slots[s].task.trigger_type)

\* The store forgets a value once its TTL has run out.
is_expired(rec, t) == rec.expires_at <= t

\* A None backend whose get answers with a default value.
backend_get_default(kind, rec) ==
    IF kind = "none" THEN [first_failure_at |-> 0, expires_at |-> NULL] ELSE rec

\* KvBackend::get: NoKvBackend answers None whatever was set; the other backends
\* answer with what they hold.
backend_get(kind, rec) == IF kind = "none" THEN NoRecord ELSE rec

\* KvBackend::set: NoKvBackend stores nothing.
backend_set(kind, old, rec) == IF kind = "none" THEN old ELSE rec

\* store.get: a record that has not expired.
store_get(e) ==
    backend_get(cfg.store,
                IF store[e] = NoRecord \/ is_expired(store[e], now) THEN NoRecord ELSE store[e])

\* A filter that keeps disabled endpoints.
filtered_endpoints_with_disabled(task) ==
    {e \in Endps : task.kind = "MessageV1" => task.endpoint_id = e}

\* CreateMessageApp::filtered_endpoints with the V1 restriction of
\* worker.rs:582-591: disabled endpoints are never delivered to.
filtered_endpoints(task) ==
    {e \in Endps : /\ ~endpoint[e].disabled
                   /\ (task.kind = "MessageV1" => task.endpoint_id = e)}

\* An endpoint with one HMAC key and no configured headers.
DefaultConf ==
    [whitelabel |-> FALSE, headers |-> {}, key |-> [type |-> "Hmac256", id |-> 65],
     old_signing_keys |-> [some |-> FALSE, keys |-> <<>>]]

NoRequest ==
    [by |-> "none", keys |-> <<>>, signatures |-> <<>>, generated |-> {}, headers |-> {}]

\* No response at hand.
NoResp == [data |-> <<>>, iterator |-> NULL, done |-> FALSE]

\* run_inner before its first poll, mod.rs:252-264: sleep_time = NO_SLEEP and
\* iterator = None.  `ix` is the position of the for loop in resp.data.
NewPoller ==
    [pc |-> "poll", iterator |-> NULL, sleep_time |-> NO_SLEEP, resp |-> NoResp, ix |-> 0]

InitDelivery ==
    /\ poller = NewPoller
    /\ output = {}
    /\ now = 0
    /\ slots = [s \in Slots |-> IdleSlot]
    /\ dests = [k \in Msgs \X Endps |-> <<>>]
    /\ attempts = EmptyBag
    /\ store = [e \in Endps |-> NoRecord]
    /\ streaks = [e \in Endps |-> {}]
    /\ opw = EmptyBag
    /\ posts = [k \in Msgs \X Endps |-> [Scheduled |-> 0, Manual |-> 0]]
    /\ acklog = {}
    /\ errs = 0
    /\ manuals = 0
    /\ shutdown = FALSE
    /\ loop = "running"

InitCommon ==
    /\ InitDelivery
    /\ conf = DefaultConf
    /\ request = NoRequest

\* Message m1 was just created: its MessageBatch task is in the queue.  The
\* application has one enabled endpoint, e1; e2 is disabled.
Init ==
    /\ InitCommon
    /\ endpoint = [e \in Endps |-> [disabled |-> e # "e1", first_failure_at |-> NULL]]
    /\ cfg = [retry_schedule |-> <<1>>, disable_in |-> 2, store |-> "memory"]
    /\ queue = SetToBag({[task |-> MessageBatch("m1", "Scheduled"), due |-> 0]})

\* The same with both endpoints enabled.
InitPair ==
    /\ InitCommon
    /\ endpoint = [e \in Endps |-> [disabled |-> FALSE, first_failure_at |-> NULL]]
    /\ cfg = [retry_schedule |-> <<1>>, disable_in |-> 2, store |-> "memory"]
    /\ queue = SetToBag({[task |-> MessageBatch("m1", "Scheduled"), due |-> 0]})

\* ------------------------------------------------------- environment
Tick ==
    /\ now < MaxTime
    /\ now' = now + 1
    /\ UNCHANGED <<cfg, queue, slots, dests, attempts, endpoint, store, streaks, opw, posts,
                   acklog, errs, manuals, shutdown, loop, conf, request, poller, output>>

\* Time passes, in the runs with the longer horizon.
Wait ==
    /\ now < MaxWait
    /\ now' = now + 1
    /\ UNCHANGED <<cfg, queue, slots, dests, attempts, endpoint, store, streaks, opw, posts,
                   acklog, errs, manuals, shutdown, loop, conf, request, poller, output>>

\* The API's resend: a Manual MessageV1 task for an existing destination.
ManualRetry(m, e) ==
    /\ manuals < MaxManual
    /\ dests[<<m, e>>] # <<>>
    /\ manuals' = manuals + 1
    /\ queue' = BagAdd(queue, [task |-> MessageTask(m, e, 0, "Manual"), due |-> 0])
    /\ UNCHANGED <<now, cfg, slots, dests, attempts, endpoint, store, streaks, opw, posts,
                   acklog, errs, shutdown, loop, conf, request, poller, output>>

SetShutdown ==
    /\ ~shutdown
    /\ shutdown' = TRUE
    /\ UNCHANGED <<now, cfg, queue, slots, dests, attempts, endpoint, store, streaks, opw, posts,
                   acklog, errs, manuals, loop, conf, request, poller, output>>

\* ------------------------------------------------------- worker_loop
RECURSIVE Spawn(_, _)
\* tokio::spawn for each delivery of the batch: each gets a task of its own.
Spawn(sl, batch) ==
    IF batch = {} THEN sl
    ELSE LET d == CHOOSE x \in batch : TRUE
             free == {s \in Slots : sl[s].pc = "idle"}
         IN  Spawn([sl EXCEPT ![Min(free)] = [IdleSlot EXCEPT !.pc = "fetch", !.task = d.task]],
                   batch \ {d})

RECURSIVE TakeAll(_, _)
TakeAll(q, batch) ==
    IF batch = {} THEN q
    ELSE LET d == CHOOSE x \in batch : TRUE
         IN  TakeAll(BagRemove(q, d), batch \ {d})

Due == {d \in BagToSet(queue) : d.due <= now}

RECURSIVE NackAll(_, _)
\* queue_tx.nack for each delivery of a batch: the queue has the task again and
\* redelivers it.
NackAll(q, batch) ==
    IF batch = {} THEN q
    ELSE LET d == CHOOSE x \in batch : TRUE
         IN  NackAll(BagAdd(q, [task |-> d.task, due |-> 0]), batch \ {d})

\* A loop that leaves on shutdown without nacking what it received.
worker_loop_receive_drop(batch) ==
    /\ loop = "running"
    /\ batch \subseteq Due
    /\ IF shutdown
       THEN /\ loop' = "exited"
            /\ queue' = TakeAll(queue, batch)
            /\ UNCHANGED <<slots, acklog>>
       ELSE /\ batch # {}
            /\ Cardinality(batch) <= Cardinality(FreeSlots)
            /\ slots' = Spawn(slots, batch)
            /\ queue' = TakeAll(queue, batch)
            /\ UNCHANGED <<loop, acklog>>
    /\ UNCHANGED <<now, cfg, dests, attempts, endpoint, store, streaks, opw, posts,
                   errs, manuals, shutdown, conf, request, poller, output>>

\* One iteration of worker_loop with receive_all() = Ok(batch), worker.rs:670-713.
\* With SHUTTING_DOWN set every delivery of the batch is nacked and the loop
\* breaks; otherwise one task is spawned per delivery.
worker_loop_receive(batch) ==
    /\ loop = "running"
    /\ batch \subseteq Due
    /\ IF shutdown
       THEN /\ loop' = "exited"
            /\ queue' = NackAll(TakeAll(queue, batch), batch)
            /\ acklog' = acklog \cup {[kind |-> d.task.kind, result |-> "shutdown",
                                         sent |-> "nack"] : d \in batch}
            /\ UNCHANGED slots
       ELSE /\ batch # {}
            /\ Cardinality(batch) <= Cardinality(FreeSlots)
            /\ slots' = Spawn(slots, batch)
            /\ queue' = TakeAll(queue, batch)
            /\ UNCHANGED <<loop, acklog>>
    /\ UNCHANGED <<now, cfg, dests, attempts, endpoint, store, streaks, opw, posts,
                   errs, manuals, shutdown, conf, request, poller, output>>

\* receive_all() = Err, worker.rs:714-717: the error is logged and the loop
\* sleeps, whatever SHUTTING_DOWN holds.
worker_loop_receive_err ==
    /\ loop = "running"
    /\ loop' = "sleeping"
    /\ UNCHANGED <<now, cfg, queue, slots, dests, attempts, endpoint, store, streaks, opw,
                   posts, acklog, errs, manuals, shutdown, conf, request, poller, output>>

\* The 10 ms are over: the next iteration.
worker_loop_sleep ==
    /\ loop = "sleeping"
    /\ loop' = "running"
    /\ UNCHANGED <<now, cfg, queue, slots, dests, attempts, endpoint, store, streaks, opw,
                   posts, acklog, errs, manuals, shutdown, conf, request, poller, output>>

\* ------------------------------------------------------- process_task
\* worker.rs:563-591: load the message and the application, filter the endpoints.
\* A MessageV1 goes straight to its dispatch; a MessageBatch inserts the
\* destinations first.
process_task_fetch(s) ==
    /\ slots[s].pc = "fetch"
    /\ LET eps == filtered_endpoints(slots[s].task) IN
       slots' = [slots EXCEPT ![s] =
           IF slots[s].task.kind = "MessageBatch"
           THEN [@ EXCEPT !.pc = "insert", !.endpoints = eps]
           ELSE [@ EXCEPT !.pc = "dispatching",
                          !.disp = [e \in Endps |-> IF e \in eps THEN NewDispatch
                                                    ELSE NoDispatch]]]
    /\ UNCHANGED <<now, cfg, queue, dests, attempts, endpoint, store, streaks, opw, posts,
                   acklog, errs, manuals, shutdown, loop, conf, request, poller, output>>

\* worker.rs:594-607: insert_many of one row {Sending, next_attempt = now} per endpoint.
process_task_insert(s) ==
    /\ slots[s].pc = "insert"
    /\ dests' = [k \in Msgs \X Endps |->
                   IF k[1] = slots[s].task.msg_id /\ k[2] \in slots[s].endpoints
                   THEN Append(dests[k], [status |-> "Sending", next_attempt |-> now])
                   ELSE dests[k]]
    /\ slots' = [slots EXCEPT ![s] =
           [@ EXCEPT !.pc = "dispatching", !.endpoints = {},
                     !.disp = [e \in Endps |-> IF e \in slots[s].endpoints
                                               THEN NewDispatch ELSE NoDispatch]]]
    /\ UNCHANGED <<now, cfg, queue, attempts, endpoint, store, streaks, opw, posts,
                   acklog, errs, manuals, shutdown, loop, conf, request, poller, output>>

\* A DB error in one of the statements above: `?` returns it from process_task.
process_task_db_error(s) ==
    /\ slots[s].pc \in {"fetch", "insert"}
    /\ errs < MaxErrs
    /\ errs' = errs + 1
    /\ slots' = [slots EXCEPT ![s] = [@ EXCEPT !.pc = "returned", !.result = "Err",
                                               !.infra = TRUE, !.endpoints = {}]]
    /\ UNCHANGED <<now, cfg, queue, dests, attempts, endpoint, store, streaks, opw, posts,
                   acklog, manuals, shutdown, loop, conf, request, poller, output>>

DispatchDone(d) == d.pc \in {"none", "ok", "err"}

\* A join that looks at the first dispatch only.
join_result_first(disp) == IF disp["e1"].pc = "err" THEN "Err" ELSE "Ok"

\* worker.rs:648-656: Err if any dispatch returned Err.
join_result(disp) == IF \E e \in Endps : disp[e].pc = "err" THEN "Err" ELSE "Ok"

\* A join that returns at the first dispatch that failed, dropping the others.
process_task_join_first_err(s) ==
    /\ slots[s].pc = "dispatching"
    /\ \/ \A e \in Endps : DispatchDone(slots[s].disp[e])
       \/ \E e \in Endps : slots[s].disp[e].pc = "err"
    /\ slots' = [slots EXCEPT ![s] =
           [@ EXCEPT !.pc = "returned", !.result = join_result(slots[s].disp)]]
    /\ UNCHANGED <<now, cfg, queue, dests, attempts, endpoint, store, streaks, opw, posts,
                   acklog, errs, manuals, shutdown, loop, conf, request, poller, output>>

\* worker.rs:646-656: join_all, then the result of process_task.
process_task_join(s) ==
    /\ slots[s].pc = "dispatching"
    /\ \A e \in Endps : DispatchDone(slots[s].disp[e])
    /\ slots' = [slots EXCEPT ![s] =
           [@ EXCEPT !.pc = "returned", !.result = join_result(slots[s].disp)]]
    /\ UNCHANGED <<now, cfg, queue, dests, attempts, endpoint, store, streaks, opw, posts,
                   acklog, errs, manuals, shutdown, loop, conf, request, poller, output>>

\* What the spawned task sends for a result of process_task, worker.rs:700-710.
ack_or_nack(result) == IF result = "Err" THEN "nack" ELSE "ack"

\* The spawned task acknowledges and ends.  A nacked delivery goes back to the
\* queue, which redelivers it.
worker_loop_ack(s) ==
    /\ slots[s].pc = "returned"
    /\ LET sent == ack_or_nack(slots[s].result) IN
       /\ acklog' = acklog \cup {[kind |-> slots[s].task.kind, result |-> slots[s].result,
                                    sent |-> sent]}
       /\ queue' = IF sent = "nack"
                   THEN BagAdd(queue, [task |-> slots[s].task, due |-> 0])
                   ELSE queue
    /\ slots' = [slots EXCEPT ![s] = IdleSlot]
    /\ UNCHANGED <<now, cfg, dests, attempts, endpoint, store, streaks, opw, posts,
                   errs, manuals, shutdown, loop, conf, request, poller, output>>

\* A spawned task that panicked ends without ack or nack; the queue redelivers
\* the delivery after its visibility timeout.
worker_loop_panicked(s) ==
    /\ slots[s].pc = "panicked"
    /\ acklog' = acklog \cup {[kind |-> slots[s].task.kind, result |-> "panic",
                                  sent |-> "none"]}
    /\ queue' = BagAdd(queue, [task |-> slots[s].task, due |-> 0])
    /\ slots' = [slots EXCEPT ![s] = IdleSlot]
    /\ UNCHANGED <<now, cfg, dests, attempts, endpoint, store, streaks, opw, posts,
                   errs, manuals, shutdown, loop, conf, request, poller, output>>

\* ----------------------------------------------------------- dispatch
Running(s, e, pc) == slots[s].pc = "dispatching" /\ slots[s].disp[e].pc = pc

SetDisp(s, e, d) == [slots EXCEPT ![s].disp[e] = d]

\* A dispatch that returned: its locals are dropped.
Finished(d, pc) ==
    [d EXCEPT !.pc = pc, !.res = "-", !.dest_ix = 0, !.duration = 0, !.at = NULL]

DestKey(s, e) == <<slots[s].task.msg_id, e>>

\* gen_range(d * (1 - JITTER_DELTA) .. d * (1 + JITTER_DELTA)): a half-open range.
Jitter(base) ==
    {d \in 0 .. 2 * base : /\ 100 * d >= (100 - JITTER_DELTA) * base
                           /\ 100 * d < (100 + JITTER_DELTA) * base}

\* worker.rs:290-300: the POST is sent and its response awaited.  A response whose
\* body cannot be read is a fault of the run.
dispatch_post(s, e, res) ==
    /\ Running(s, e, "post")
    /\ res \in Responses
    /\ posts' = [posts EXCEPT ![DestKey(s, e)][slots[s].task.trigger_type] = @ + 1]
    /\ slots' = SetDisp(s, e, [slots[s].disp[e] EXCEPT !.pc = "fetch", !.res = res])
    /\ IF res = "body_err" THEN errs < MaxErrs /\ errs' = errs + 1 ELSE UNCHANGED errs
    /\ UNCHANGED <<now, cfg, queue, dests, attempts, endpoint, store, streaks, opw,
                   acklog, manuals, shutdown, loop, conf, request, poller, output>>

\* An idempotency check that forgets the trigger type.
skip_dispatch_any_trigger(status, trigger_type) ==
    status # "Pending" /\ status # "Sending"

\* The idempotency check of worker.rs:313-314.
skip_dispatch(status, trigger_type) ==
    (status # "Pending" /\ status # "Sending") /\ trigger_type # "Manual"

\* worker.rs:302-323: select the destination row (`.one`: any row of the pair),
\* return Ok if it is not pending and the task is not manual.
dispatch_fetch(s, e) ==
    /\ Running(s, e, "fetch")
    /\ LET rows == dests[DestKey(s, e)]
           d == slots[s].disp[e] IN
       IF rows = <<>>
       THEN slots' = [SetDisp(s, e, Finished(d, "err")) EXCEPT ![s].infra = TRUE]
       ELSE \E ix \in 1 .. Len(rows) :
              slots' = SetDisp(s, e,
                  IF skip_dispatch(rows[ix].status, slots[s].task.trigger_type)
                  THEN Finished(d, "ok")
                  ELSE [d EXCEPT !.pc = "insert", !.dest_ix = ix])
    /\ UNCHANGED <<now, cfg, queue, dests, attempts, endpoint, store, streaks, opw, posts,
                   acklog, errs, manuals, shutdown, loop, conf, request, poller, output>>

\* worker.rs:347-350: `.expect` on the body: the spawned task panics.
dispatch_body_panic(s, e) ==
    /\ Running(s, e, "insert")
    /\ slots[s].disp[e].res = "body_err"
    /\ slots' = [slots EXCEPT ![s].pc = "panicked"]
    /\ UNCHANGED <<now, cfg, queue, dests, attempts, endpoint, store, streaks, opw, posts,
                   acklog, errs, manuals, shutdown, loop, conf, request, poller, output>>

\* Where dispatch goes after inserting the attempt row, worker.rs:376-449.
after_insert(res, task, schedule) ==
    IF attempt_is_ok(res) THEN "upd_success"
    ELSE IF task.trigger_type = "Manual" THEN "ok"
    ELSE IF task.attempt_count < Len(schedule) THEN "upd_next"
    ELSE "upd_fail"

\* worker.rs:325-378, 392-411: build the attempt row and insert it; on the retry
\* path draw the jittered delay and compute next_attempt.  gen_range panics on an
\* empty range; the panic is a fault of the run.
dispatch_insert(s, e) ==
    /\ Running(s, e, "insert")
    /\ slots[s].disp[e].res # "body_err"
    /\ LET d == slots[s].disp[e]
           t == msg_task(s, e)
           nxt == after_insert(d.res, t, cfg.retry_schedule) IN
       /\ attempts' = BagAdd(attempts,
              [msg_id |-> t.msg_id, endp_id |-> e, status |-> attempt_status(d.res),
               trigger_type |-> t.trigger_type])
       /\ IF nxt = "upd_next"
          THEN LET base == cfg.retry_schedule[t.attempt_count + 1] IN
               IF Jitter(base) = {}
               THEN /\ errs < MaxErrs
                    /\ errs' = errs + 1
                    /\ slots' = [slots EXCEPT ![s].pc = "panicked"]
               ELSE /\ \E dur \in Jitter(base) :
                         slots' = SetDisp(s, e, [d EXCEPT !.pc = "upd_next", !.inserted = TRUE,
                                                          !.duration = dur, !.at = now + dur])
                    /\ UNCHANGED errs
          ELSE /\ slots' = SetDisp(s, e, IF nxt = "ok"
                                         THEN [Finished(d, "ok") EXCEPT !.inserted = TRUE]
                                         ELSE [d EXCEPT !.pc = nxt, !.inserted = TRUE])
               /\ UNCHANGED errs
    /\ UNCHANGED <<now, cfg, queue, dests, endpoint, store, streaks, opw, posts,
                   acklog, manuals, shutdown, loop, conf, request, poller, output>>

\* ActiveModel::update: only the columns that are Set are written, to the row
\* whose primary key the dispatch read.
update_dest(s, e, status, next_attempt) ==
    [dests EXCEPT ![DestKey(s, e)][slots[s].disp[e].dest_ix] =
        [status |-> IF status = "-" THEN @.status ELSE status,
         next_attempt |-> next_attempt]]

\* worker.rs:380-385
dispatch_upd_success(s, e) ==
    /\ Running(s, e, "upd_success")
    /\ dests' = update_dest(s, e, "Success", NULL)
    /\ slots' = SetDisp(s, e, [slots[s].disp[e] EXCEPT !.pc = "store_delete"])
    /\ UNCHANGED <<now, cfg, queue, attempts, endpoint, store, streaks, opw, posts,
                   acklog, errs, manuals, shutdown, loop, conf, request, poller, output>>

\* process_success_store, worker.rs:80-93: delete the failure record.
process_success_store(e) == [store EXCEPT ![e] = NoRecord]

\* worker.rs:387
dispatch_store_delete(s, e) ==
    /\ Running(s, e, "store_delete")
    /\ store' = process_success_store(e)
    /\ streaks' = [streaks EXCEPT ![e] = {}]
    /\ slots' = SetDisp(s, e, Finished(slots[s].disp[e], "ok"))
    /\ UNCHANGED <<now, cfg, queue, dests, attempts, endpoint, opw, posts,
                   acklog, errs, manuals, shutdown, loop, conf, request, poller, output>>

\* worker.rs:413-422: only next_attempt is Set.
dispatch_upd_next(s, e) ==
    /\ Running(s, e, "upd_next")
    /\ dests' = update_dest(s, e, "-", slots[s].disp[e].at)
    /\ slots' = SetDisp(s, e, [slots[s].disp[e] EXCEPT !.pc =
           IF msg_task(s, e).attempt_count = OP_WEBHOOKS_SEND_FAILING_EVENT_AFTER
           THEN "opw_failing" ELSE "enqueue"])
    /\ UNCHANGED <<now, cfg, queue, attempts, endpoint, store, streaks, opw, posts,
                   acklog, errs, manuals, shutdown, loop, conf, request, poller, output>>

OpWebhook(kind, t, fail_since) ==
    [kind |-> kind, msg_id |-> t.msg_id, endpoint_id |-> t.endpoint_id,
     fail_since |-> fail_since]

\* worker.rs:424-438
dispatch_opw_failing(s, e) ==
    /\ Running(s, e, "opw_failing")
    /\ opw' = BagAdd(opw, OpWebhook("MessageAttemptFailing", msg_task(s, e), NULL))
    /\ slots' = SetDisp(s, e, [slots[s].disp[e] EXCEPT !.pc = "enqueue"])
    /\ UNCHANGED <<now, cfg, queue, dests, attempts, endpoint, store, streaks, posts,
                   acklog, errs, manuals, shutdown, loop, conf, request, poller, output>>

\* The task of worker.rs:442-445: msg_task with attempt_count + 1.
retry_task(t) == [t EXCEPT !.attempt_count = t.attempt_count + 1]

\* worker.rs:440-448: queue_tx.send(.., Some(duration)).
dispatch_enqueue(s, e) ==
    /\ Running(s, e, "enqueue")
    /\ queue' = BagAdd(queue, [task |-> retry_task(msg_task(s, e)),
                               due |-> now + slots[s].disp[e].duration])
    /\ slots' = SetDisp(s, e, Finished(slots[s].disp[e], "ok"))
    /\ UNCHANGED <<now, cfg, dests, attempts, endpoint, store, streaks, opw, posts,
                   acklog, errs, manuals, shutdown, loop, conf, request, poller, output>>

\* worker.rs:456-461
dispatch_upd_fail(s, e) ==
    /\ Running(s, e, "upd_fail")
    /\ dests' = update_dest(s, e, "Fail", NULL)
    /\ slots' = SetDisp(s, e, [slots[s].disp[e] EXCEPT !.pc = "opw_exhausted"])
    /\ UNCHANGED <<now, cfg, queue, attempts, endpoint, store, streaks, opw, posts,
                   acklog, errs, manuals, shutdown, loop, conf, request, poller, output>>

\* worker.rs:463-476
dispatch_opw_exhausted(s, e) ==
    /\ Running(s, e, "opw_exhausted")
    /\ opw' = BagAdd(opw, OpWebhook("MessageAttemptExhausted", msg_task(s, e), NULL))
    /\ slots' = SetDisp(s, e, [slots[s].disp[e] EXCEPT !.pc = "pfs_get"])
    /\ UNCHANGED <<now, cfg, queue, dests, attempts, endpoint, store, streaks, posts,
                   acklog, errs, manuals, shutdown, loop, conf, request, poller, output>>

\* A grace-period check that also fires when exactly disable_in has elapsed.
failure_decision_inclusive(rec, t, disable_in) ==
    IF rec # NoRecord
    THEN IF t - rec.first_failure_at >= disable_in THEN "disable" ELSE "none"
    ELSE "set"

\* The decision of process_failure_store on the record it read, worker.rs:118-147:
\* "disable", "none" (Ok(None) at once) or "set" (store the first failure).
failure_decision(rec, t, disable_in) ==
    IF rec # NoRecord
    THEN IF t - rec.first_failure_at > disable_in THEN "disable" ELSE "none"
    ELSE "set"

\* process_failure_store up to and including store.get, worker.rs:114-130.
dispatch_pfs_get(s, e) ==
    /\ Running(s, e, "pfs_get")
    /\ LET rec == store_get(e)
           d == slots[s].disp[e]
           dec == failure_decision(rec, now, cfg.disable_in) IN
       /\ slots' = SetDisp(s, e,
           IF dec = "disable"
           THEN [d EXCEPT !.pc = "opw_disabled", !.at = rec.first_failure_at]
           ELSE IF dec = "none" THEN Finished(d, "ok")
           ELSE [d EXCEPT !.pc = "pfs_set", !.at = now])
       /\ streaks' = IF dec = "set" THEN [streaks EXCEPT ![e] = @ \cup {now}] ELSE streaks
    /\ UNCHANGED <<now, cfg, queue, dests, attempts, endpoint, store, opw, posts,
                   acklog, errs, manuals, shutdown, loop, conf, request, poller, output>>

\* store.set(key, {first_failure_at: now}, disable_in * 2), worker.rs:133-146.
dispatch_pfs_set(s, e) ==
    /\ Running(s, e, "pfs_set")
    /\ store' = [store EXCEPT ![e] =
                    backend_set(cfg.store, @, [first_failure_at |-> slots[s].disp[e].at,
                                               expires_at |-> now + 2 * cfg.disable_in])]
    /\ slots' = SetDisp(s, e, Finished(slots[s].disp[e], "ok"))
    /\ UNCHANGED <<now, cfg, queue, dests, attempts, endpoint, streaks, opw, posts,
                   acklog, errs, manuals, shutdown, loop, conf, request, poller, output>>

\* worker.rs:488-502
dispatch_opw_disabled(s, e) ==
    /\ Running(s, e, "opw_disabled")
    /\ opw' = BagAdd(opw, OpWebhook("EndpointDisabled", [msg_task(s, e) EXCEPT !.msg_id = "-"],
                                    slots[s].disp[e].at))
    /\ slots' = SetDisp(s, e, [slots[s].disp[e] EXCEPT !.pc = "endp_find"])
    /\ UNCHANGED <<now, cfg, queue, dests, attempts, endpoint, store, streaks, posts,
                   acklog, errs, manuals, shutdown, loop, conf, request, poller, output>>

\* worker.rs:505-516
dispatch_endp_find(s, e) ==
    /\ Running(s, e, "endp_find")
    /\ slots' = SetDisp(s, e, [slots[s].disp[e] EXCEPT !.pc = "endp_update"])
    /\ UNCHANGED <<now, cfg, queue, dests, attempts, endpoint, store, streaks, opw, posts,
                   acklog, errs, manuals, shutdown, loop, conf, request, poller, output>>

\* An endpoint update that sets only the disabled column.
dispatch_endp_update_flag_only(s, e) ==
    /\ Running(s, e, "endp_update")
    /\ endpoint' = [endpoint EXCEPT ![e].disabled = TRUE]
    /\ slots' = SetDisp(s, e, Finished(slots[s].disp[e], "ok"))
    /\ UNCHANGED <<now, cfg, queue, dests, attempts, store, streaks, opw, posts,
                   acklog, errs, manuals, shutdown, loop, conf, request, poller, output>>

\* worker.rs:518-523
dispatch_endp_update(s, e) ==
    /\ Running(s, e, "endp_update")
    /\ endpoint' = [endpoint EXCEPT ![e] =
           [disabled |-> TRUE, first_failure_at |-> slots[s].disp[e].at]]
    /\ slots' = SetDisp(s, e, Finished(slots[s].disp[e], "ok"))
    /\ UNCHANGED <<now, cfg, queue, dests, attempts, store, streaks, opw, posts,
                   acklog, errs, manuals, shutdown, loop, conf, request, poller, output>>

\* The statements of dispatch that return a DB, store or queue error through `?`.
InfraPcs ==
    {"fetch", "insert", "upd_success", "store_delete", "upd_next", "enqueue",
     "upd_fail", "pfs_get", "pfs_set", "endp_find", "endp_update"}

dispatch_infra_error(s, e) ==
    /\ slots[s].pc = "dispatching"
    /\ slots[s].disp[e].pc \in InfraPcs
    /\ errs < MaxErrs
    /\ errs' = errs + 1
    /\ slots' = [SetDisp(s, e, Finished(slots[s].disp[e], "err")) EXCEPT ![s].infra = TRUE]
    /\ UNCHANGED <<now, cfg, queue, dests, attempts, endpoint, store, streaks, opw, posts,
                   acklog, manuals, shutdown, loop, conf, request, poller, output>>

\* ------------------------------------------------------------ the system
\* One attempt: POST, destination check, attempt row, then the success path or
\* the scheduling of a retry.
DispatchSteps(s, e) ==
    \/ \E res \in Responses \ {"body_err"} : dispatch_post(s, e, res)
    \/ dispatch_fetch(s, e)
    \/ dispatch_insert(s, e)
    \/ dispatch_upd_success(s, e)
    \/ dispatch_store_delete(s, e)

\* The faults of a dispatch: an unreadable body, a DB, store or queue error.
DispatchFaults(s, e) ==
    \/ dispatch_post(s, e, "body_err")
    \/ dispatch_body_panic(s, e)
    \/ dispatch_infra_error(s, e)

DispatchFirst(s, e) ==
    \/ DispatchSteps(s, e)
    \/ DispatchFaults(s, e)

\* A retry is scheduled.
DispatchRetry(s, e) ==
    \/ dispatch_upd_next(s, e)
    \/ dispatch_enqueue(s, e)

DispatchAttempt(s, e) ==
    \/ DispatchFirst(s, e)
    \/ DispatchRetry(s, e)

\* The retry schedule is exhausted.
DispatchExhausted(s, e) ==
    \/ dispatch_upd_fail(s, e)
    \/ dispatch_opw_exhausted(s, e)
    \/ dispatch_pfs_get(s, e)
    \/ dispatch_pfs_set(s, e)

\* The endpoint is disabled.
DispatchDisable(s, e) ==
    \/ dispatch_opw_disabled(s, e)
    \/ dispatch_endp_find(s, e)
    \/ dispatch_endp_update(s, e)

TaskSteps(s) ==
    \/ process_task_fetch(s)
    \/ process_task_insert(s)
    \/ process_task_join(s)
    \/ worker_loop_ack(s)

\* The faults of a spawned task: a DB error before the dispatches, a panic.
TaskFaults(s) ==
    \/ process_task_db_error(s)
    \/ worker_loop_panicked(s)

ProcessTask(s) ==
    \/ TaskSteps(s)
    \/ TaskFaults(s)

Next ==
    \/ Tick
    \/ \E m \in Msgs, e \in Endps : ManualRetry(m, e)
    \/ \E batch \in SUBSET Due : worker_loop_receive(batch)
    \/ \E s \in Slots : ProcessTask(s)
    \/ \E s \in Slots, e \in Endps : DispatchAttempt(s, e)
    \/ \E s \in Slots, e \in Endps : DispatchExhausted(s, e)

\* One message, one enabled endpoint, retries, manual retries, faults.
Spec == Init /\ [][Next]_vars

NextPair ==
    \/ \E batch \in SUBSET Due : worker_loop_receive(batch)
    \/ \E s \in Slots : ProcessTask(s)
    \/ \E s \in Slots, e \in Endps : DispatchAttempt(s, e)

\* One message fanned out to two endpoints: the first attempts, with faults.
SpecPair == InitPair /\ [][NextPair]_vars

\* Two messages for one endpoint that has no retries configured: every failed
\* attempt exhausts the schedule and reaches the endpoint-health store.  No
\* faults are injected.
InitHealth ==
    /\ InitCommon
    /\ endpoint = [e \in Endps |-> [disabled |-> e # "e1", first_failure_at |-> NULL]]
    /\ cfg = [retry_schedule |-> <<>>, disable_in |-> 2, store |-> "memory"]
    /\ queue = SetToBag({[task |-> MessageBatch(m, "Scheduled"), due |-> 0] : m \in Msgs})

NextHealth ==
    \/ Wait
    \/ \E m \in Msgs, e \in Endps : ManualRetry(m, e)
    \/ \E batch \in SUBSET Due : worker_loop_receive(batch)
    \/ \E s \in Slots : TaskSteps(s)
    \/ \E s \in Slots, e \in Endps : DispatchSteps(s, e)
    \/ \E s \in Slots, e \in Endps : DispatchExhausted(s, e)
    \/ \E s \in Slots, e \in Endps : DispatchDisable(s, e)

SpecHealth == InitHealth /\ [][NextHealth]_vars

\* The same with the None backend as shared store.
InitNone ==
    /\ InitCommon
    /\ endpoint = [e \in Endps |-> [disabled |-> e # "e1", first_failure_at |-> NULL]]
    /\ cfg = [retry_schedule |-> <<>>, disable_in |-> 2, store |-> "none"]
    /\ queue = SetToBag({[task |-> MessageBatch(m, "Scheduled"), due |-> 0] : m \in Msgs})

NextNone ==
    \/ Wait
    \/ \E m \in Msgs, e \in Endps : ManualRetry(m, e)
    \/ \E batch \in SUBSET Due : worker_loop_receive(batch)
    \/ \E s \in Slots : TaskSteps(s)
    \/ \E s \in Slots, e \in Endps : DispatchSteps(s, e)
    \/ \E s \in Slots, e \in Endps : DispatchExhausted(s, e)

SpecNone == InitNone /\ [][NextNone]_vars

\* One message, one endpoint, a retry schedule whose second delay is zero.
InitJitter ==
    /\ InitCommon
    /\ endpoint = [e \in Endps |-> [disabled |-> e # "e1", first_failure_at |-> NULL]]
    /\ cfg = [retry_schedule |-> <<5, 0>>, disable_in |-> 2, store |-> "memory"]
    /\ queue = SetToBag({[task |-> MessageBatch("m1", "Scheduled"), due |-> 0]})

NextJitter ==
    \/ Wait
    \/ \E batch \in SUBSET Due : worker_loop_receive(batch)
    \/ \E s \in Slots : ProcessTask(s)
    \/ \E s \in Slots, e \in Endps : DispatchSteps(s, e)
    \/ \E s \in Slots, e \in Endps : DispatchRetry(s, e)

SpecJitter == InitJitter /\ [][NextJitter]_vars

\* The fifth attempt is about to be re-enqueued: MessageAttemptFailing.
DispatchFailing(s, e) == dispatch_opw_failing(s, e)

\* One message, one endpoint, a schedule of five retries one time unit apart.
\* No faults are injected.
InitFailing ==
    /\ InitCommon
    /\ endpoint = [e \in Endps |-> [disabled |-> e # "e1", first_failure_at |-> NULL]]
    /\ cfg = [retry_schedule |-> <<1, 1, 1, 1, 1>>, disable_in |-> 2, store |-> "memory"]
    /\ queue = SetToBag({[task |-> MessageBatch("m1", "Scheduled"), due |-> 0]})

NextFailing ==
    \/ Wait
    \/ \E batch \in SUBSET Due : worker_loop_receive(batch)
    \/ \E s \in Slots : TaskSteps(s)
    \/ \E s \in Slots, e \in Endps : DispatchSteps(s, e)
    \/ \E s \in Slots, e \in Endps : DispatchRetry(s, e)
    \/ \E s \in Slots, e \in Endps : DispatchFailing(s, e)

SpecFailing == InitFailing /\ [][NextFailing]_vars

\* OperationalWebhookSender::send_operational_webhook, for a send that was
\* delivered or that failed: the failure is logged and the call returns Ok.
send_operational_webhook(outcome) == IF outcome \in {"delivered", "failed"} THEN "Ok" ELSE "Err"

\* The three sends of dispatch and the statement each is followed by.
OpwPcs == {"opw_failing", "opw_exhausted", "opw_disabled"}

after_opw(pc) ==
    CASE pc = "opw_failing" -> "enqueue"
      [] pc = "opw_exhausted" -> "pfs_get"
      [] pc = "opw_disabled" -> "endp_find"

\* A dispatch that returns the failure of a send to its caller.
dispatch_opw_send_failed_propagated(s, e) ==
    /\ slots[s].pc = "dispatching"
    /\ slots[s].disp[e].pc \in OpwPcs
    /\ errs < MaxErrs
    /\ errs' = errs + 1
    /\ slots' = [SetDisp(s, e, Finished(slots[s].disp[e], "err")) EXCEPT ![s].infra = TRUE]
    /\ UNCHANGED <<now, cfg, queue, dests, attempts, endpoint, store, streaks, opw, posts,
                   acklog, manuals, shutdown, loop, conf, request, poller, output>>

\* worker.rs:425-437, 464-476, 490-502 with a send that fails: nothing reaches
\* the operational endpoints, and `.await?` goes by what the sender returned.
dispatch_opw_send_failed(s, e) ==
    /\ slots[s].pc = "dispatching"
    /\ slots[s].disp[e].pc \in OpwPcs
    /\ errs < MaxErrs
    /\ errs' = errs + 1
    /\ slots' = IF send_operational_webhook("failed") = "Ok"
                THEN SetDisp(s, e, [slots[s].disp[e] EXCEPT !.pc = after_opw(@)])
                ELSE [SetDisp(s, e, Finished(slots[s].disp[e], "err")) EXCEPT ![s].infra = TRUE]
    /\ UNCHANGED <<now, cfg, queue, dests, attempts, endpoint, store, streaks, opw, posts,
                   acklog, manuals, shutdown, loop, conf, request, poller, output>>

\* Either five retries for one message, or no retries for two messages.
InitOpw == InitFailing \/ InitHealth

NextOpw ==
    \/ Wait
    \/ \E batch \in SUBSET Due : worker_loop_receive(batch)
    \/ \E s \in Slots : TaskSteps(s)
    \/ \E s \in Slots, e \in Endps : DispatchSteps(s, e)
    \/ \E s \in Slots, e \in Endps : DispatchRetry(s, e)
    \/ \E s \in Slots, e \in Endps : DispatchFailing(s, e)
    \/ \E s \in Slots, e \in Endps : DispatchExhausted(s, e)
    \/ \E s \in Slots, e \in Endps : DispatchDisable(s, e)
    \/ \E s \in Slots, e \in Endps : dispatch_opw_send_failed(s, e)

\* The deliveries of both configurations, with sends of operational webhooks
\* that fail and no other fault.
SpecOpw == InitOpw /\ [][NextOpw]_vars

\* The iterations of worker_loop: a batch, or an error of the consumer and the
\* sleep that answers it.
WorkerLoop ==
    \/ \E batch \in SUBSET Due : worker_loop_receive(batch)
    \/ worker_loop_receive_err
    \/ worker_loop_sleep

NextShutdown ==
    \/ Tick
    \/ SetShutdown
    \/ WorkerLoop
    \/ \E s \in Slots : TaskSteps(s)
    \/ \E s \in Slots, e \in Endps : DispatchSteps(s, e)
    \/ \E s \in Slots, e \in Endps : DispatchRetry(s, e)
    \/ \E s \in Slots, e \in Endps : DispatchExhausted(s, e)

\* One message for both endpoints; the shutdown flag is set at some moment and
\* the queue consumer may return errors.  No other faults.
SpecShutdown == InitPair /\ [][NextShutdown]_vars

\* The same with the loop's task scheduled fairly: an iteration that can be
\* taken is eventually taken.  What receive_all returns is up to the consumer.
SpecShutdownFair == SpecShutdown /\ WF_vars(WorkerLoop)

\* ------------------------------------------------ signing and headers
\* Strings are sequences of bytes.
\* "m1"
MSG1 == <<109, 49>>

\* "m2"
MSG2 == <<109, 50>>

\* "{}"
BODYBYTES == <<123, 125>>

\* "v1"
V1 == <<118, 49>>

\* "v1a"
V1A == <<118, 49, 97>>

\* "webhook-id"
WEBHOOK_ID == <<119, 101, 98, 104, 111, 111, 107, 45, 105, 100>>

\* "webhook-timestamp"
WEBHOOK_TIMESTAMP == <<119, 101, 98, 104, 111, 111, 107, 45, 116, 105, 109, 101, 115, 116, 97, 109, 112>>

\* "webhook-signature"
WEBHOOK_SIGNATURE == <<119, 101, 98, 104, 111, 111, 107, 45, 115, 105, 103, 110, 97, 116, 117, 114, 101>>

\* "svix-id"
SVIX_ID == <<115, 118, 105, 120, 45, 105, 100>>

\* "svix-timestamp"
SVIX_TIMESTAMP == <<115, 118, 105, 120, 45, 116, 105, 109, 101, 115, 116, 97, 109, 112>>

\* "svix-signature"
SVIX_SIGNATURE == <<115, 118, 105, 120, 45, 115, 105, 103, 110, 97, 116, 117, 114, 101>>

\* "user-agent"
USER_AGENT_NAME == <<117, 115, 101, 114, 45, 97, 103, 101, 110, 116>>

\* "Svix-Webhooks/1"
USER_AGENT == <<83, 118, 105, 120, 45, 87, 101, 98, 104, 111, 111, 107, 115, 47, 49>>

\* "Webhook-Id"
WEBHOOK_ID_CAPS == <<87, 101, 98, 104, 111, 111, 107, 45, 73, 100>>

\* "x-a"
X_A == <<120, 45, 97>>

\* "X-A"
X_A_CAPS == <<88, 45, 65>>

\* "x" and the two bytes of a-umlaut in UTF-8
X_INVALID == <<120, 195, 164>>

\* "1"
VAL_1 == <<49>>

\* "2"
VAL_2 == <<50>>

\* "1\n"
VAL_LF == <<49, 10>>

RECURSIVE Concat(_)
\* The concatenation of a sequence of strings.
Concat(ss) == IF ss = <<>> THEN <<>> ELSE Head(ss) \o Concat(Tail(ss))

RECURSIVE Join(_, _)
\* Vec<String>::join(sep)
Join(ss, sep) ==
    IF ss = <<>> THEN <<>>
    ELSE IF Len(ss) = 1 THEN ss[1]
    ELSE ss[1] \o sep \o Join(Tail(ss), sep)

RECURSIVE Sum(_)
Sum(bs) == IF bs = <<>> THEN 0 ELSE Head(bs) + Sum(Tail(bs))

RECURSIVE to_string(_)
\* i64::to_string of a non-negative number: its decimal digits.
to_string(n) == IF n < 10 THEN <<48 + n>> ELSE to_string(n \div 10) \o <<48 + (n % 10)>>

\* The bytes a header name may consist of (an HTTP token), upper case included.
is_tchar(c) ==
    \/ c \in 48 .. 57
    \/ c \in 65 .. 90
    \/ c \in 97 .. 122
    \/ c \in {33, 35, 36, 37, 38, 39, 42, 43, 45, 46, 94, 95, 96, 124, 126}

\* HeaderName::from_str(k): the name in lower case, or an error (the empty name
\* here, itself not a name) for an empty string or one with a byte outside the
\* token set.
HeaderName_from_str(k) ==
    IF k = <<>> \/ \E i \in 1 .. Len(k) : ~is_tchar(k[i]) THEN <<>>
    ELSE [i \in 1 .. Len(k) |-> IF k[i] \in 65 .. 90 THEN k[i] + 32 ELSE k[i]]

\* v.parse::<HeaderValue>() is Ok: visible bytes, space and tab only.
HeaderValue_is_ok(v) == \A i \in 1 .. Len(v) : (v[i] >= 32 /\ v[i] # 127) \/ v[i] = 9

\* HeaderMap::insert: the value replaces the one the name had.
insert(headers, k, v) == {p \in headers : p[1] # k} \cup {<<k, v>>}

\* MessageId as a string.
msg_id_str(m) == IF m = "m1" THEN MSG1 ELSE MSG2

\* serde_json::to_string(&payload)
BODY == BODYBYTES

\* x.sign(main_secret, to_sign) in base64: a text without spaces that depends on
\* the key and on every byte signed.
sign_base64(key, to_sign) == <<key.id, 97 + (Sum(to_sign) % 26)>>

\* The version tag of a token, worker.rs:162-165.
version_tag(key) == IF key.type = "Hmac256" THEN V1 ELSE V1A

\* A signer that tags every token v1.
sign_msg_untagged(timestamp, body, msg_id, endpoint_signing_keys) ==
    LET to_sign == Concat(<<msg_id, <<46>>, to_string(timestamp), <<46>>, body>>) IN
    Join([i \in 1 .. Len(endpoint_signing_keys) |->
            V1 \o <<44>> \o sign_base64(endpoint_signing_keys[i], to_sign)],
         <<32>>)

\* sign_msg, worker.rs:151-171: "{version},{base64(sig)}" per key, joined by " ".
sign_msg(timestamp, body, msg_id, endpoint_signing_keys) ==
    LET to_sign == Concat(<<msg_id, <<46>>, to_string(timestamp), <<46>>, body>>) IN
    Join([i \in 1 .. Len(endpoint_signing_keys) |->
            version_tag(endpoint_signing_keys[i]) \o <<44>>
              \o sign_base64(endpoint_signing_keys[i], to_sign)],
         <<32>>)

RECURSIVE insert_configured(_, _)
\* worker.rs:201-210: the configured pairs in the order the HashMap yields them;
\* a pair with an invalid name or value is logged and skipped.
insert_configured(headers, order) ==
    IF order = <<>> THEN headers
    ELSE LET k == HeaderName_from_str(Head(order)[1])
             v == Head(order)[2] IN
         insert_configured(IF k # <<>> /\ HeaderValue_is_ok(v)
                           THEN insert(headers, k, v) ELSE headers,
                           Tail(order))

\* The names of the three platform headers, worker.rs:192-199.
platform_names(whitelabel_headers) ==
    IF whitelabel_headers
    THEN [id |-> WEBHOOK_ID, timestamp |-> WEBHOOK_TIMESTAMP, signature |-> WEBHOOK_SIGNATURE]
    ELSE [id |-> SVIX_ID, timestamp |-> SVIX_TIMESTAMP, signature |-> SVIX_SIGNATURE]

\* generate_msg_headers, worker.rs:174-212, with the configured headers in the
\* order `order` (the empty sequence for None).
generate_msg_headers(timestamp, msg_id, signatures, whitelabel_headers, order) ==
    LET n == platform_names(whitelabel_headers)
        h1 == insert({}, n.id, msg_id)
        h2 == insert(h1, n.timestamp, to_string(timestamp))
        h3 == insert(h2, n.signature, signatures) IN
    insert_configured(h3, order)

\* The orders in which a HashMap may yield its pairs.
Orders(pairs) ==
    {o \in [1 .. Cardinality(pairs) -> pairs] :
       \A i, j \in 1 .. Cardinality(pairs) : i # j => o[i] # o[j]}

\* The keys dispatch signs with, worker.rs:262-269.
signing_keys(endp) ==
    IF endp.old_signing_keys.some
    THEN <<endp.key>> \o endp.old_signing_keys.keys
    ELSE <<endp.key>>

\* worker.rs:258-287: the signatures and the headers of an attempt for message m.
dispatch_headers(m, order) ==
    /\ request.by = "none"
    /\ order \in Orders(conf.headers)
    /\ LET keys == signing_keys(conf)
           signatures == sign_msg(now, BODY, msg_id_str(m), keys)
           headers == generate_msg_headers(now, msg_id_str(m), signatures,
                                           conf.whitelabel, order) IN
       request' = [by |-> "dispatch", keys |-> keys, signatures |-> signatures,
                   generated |-> headers,
                   headers |-> insert(headers, USER_AGENT_NAME, USER_AGENT)]
    /\ UNCHANGED <<now, cfg, queue, slots, dests, attempts, endpoint, store, streaks, opw,
                   posts, acklog, errs, manuals, shutdown, loop, conf, poller, output>>

\* sign_msg and generate_msg_headers called on their own, as by mock_headers
\* and the tests of worker.rs:743-869: any list of keys, no configured headers.
test_generate_msg_headers(m, keys) ==
    /\ request.by = "none"
    /\ conf = DefaultConf
    /\ LET signatures == sign_msg(now, BODY, msg_id_str(m), keys)
           headers == generate_msg_headers(now, msg_id_str(m), signatures,
                                           conf.whitelabel, <<>>) IN
       request' = [by |-> "test", keys |-> keys, signatures |-> signatures,
                   generated |-> headers, headers |-> headers]
    /\ UNCHANGED <<now, cfg, queue, slots, dests, attempts, endpoint, store, streaks, opw,
                   posts, acklog, errs, manuals, shutdown, loop, conf, poller, output>>

\* Header names an endpoint may have configured: those of platform headers in
\* either spelling, custom ones, one with a byte that no name may hold.
ConfNames == {SVIX_ID, WEBHOOK_ID_CAPS, USER_AGENT_NAME, X_A, X_A_CAPS, X_INVALID}

\* Configured values: two valid ones, one with a line feed.
ConfValues == {VAL_1, VAL_2, VAL_LF}

\* HashMap<String, String>: at most one value per name.
ConfHeaders ==
    {h \in SUBSET (ConfNames \X ConfValues) :
       /\ Cardinality(h) <= MaxHeaders
       /\ \A p, q \in h : p[1] = q[1] => p = q}

KeyTypes == {"Hmac256", "Ed25519"}

\* Lists of up to n keys; the key at position i has material 65 + i.
KeyLists(n, first) ==
    UNION {{[i \in 1 .. len |-> [type |-> ts[i], id |-> first + i]] :
              ts \in [1 .. len -> KeyTypes]} : len \in 0 .. n}

Confs ==
    [whitelabel : BOOLEAN, headers : ConfHeaders,
     key : {[type |-> t, id |-> 65] : t \in KeyTypes},
     old_signing_keys : {[some |-> FALSE, keys |-> <<>>]}
                          \cup [some : {TRUE}, keys : KeyLists(MaxOldKeys, 65)]]

\* An endpoint with any of the settings above; nothing is queued.
InitRequest ==
    /\ InitDelivery
    /\ endpoint = [e \in Endps |-> [disabled |-> e # "e1", first_failure_at |-> NULL]]
    /\ cfg = [retry_schedule |-> <<1>>, disable_in |-> 2, store |-> "memory"]
    /\ queue = EmptyBag
    /\ conf \in Confs
    /\ request = NoRequest

NextRequest ==
    \/ \E order \in Orders(conf.headers) : dispatch_headers("m1", order)
    \/ \E keys \in KeyLists(MaxOldKeys, 64) : test_generate_msg_headers("m1", keys)

\* The signatures and headers of one request, for every endpoint setting.
SpecRequest == InitRequest /\ [][NextRequest]_vars

\* The API's endpoint update: the owner of an endpoint disables it.
DisableEndpoint(e) ==
    /\ ~endpoint[e].disabled
    /\ endpoint' = [endpoint EXCEPT ![e].disabled = TRUE]
    /\ UNCHANGED <<now, cfg, queue, slots, dests, attempts, store, streaks, opw, posts,
                   acklog, errs, manuals, shutdown, loop, conf, request, poller, output>>

NextStale ==
    \/ Tick
    \/ \E e \in Endps : DisableEndpoint(e)
    \/ \E m \in Msgs, e \in Endps : ManualRetry(m, e)
    \/ \E batch \in SUBSET Due : worker_loop_receive(batch)
    \/ \E s \in Slots : TaskSteps(s)
    \/ \E s \in Slots, e \in Endps : DispatchSteps(s, e)
    \/ \E s \in Slots, e \in Endps : DispatchRetry(s, e)
    \/ \E s \in Slots, e \in Endps : DispatchExhausted(s, e)

\* One message, one endpoint that its owner may disable at any moment: before
\* the first attempt, while a retry is queued, after a manual retry was asked
\* for.  No faults are injected.
SpecStale == Init /\ [][NextStale]_vars

\* Two messages for e1, which has no retries configured, while a failure streak
\* of e1 is under way: an earlier message exhausted its attempts at t = 0 and
\* the store holds the record of that failure, stored with TTL 2 * disable_in.
InitStreak ==
    /\ poller = NewPoller
    /\ output = {}
    /\ now = 0
    /\ slots = [s \in Slots |-> IdleSlot]
    /\ dests = [k \in Msgs \X Endps |-> <<>>]
    /\ attempts = EmptyBag
    /\ store = [e \in Endps |-> IF e = "e1" THEN [first_failure_at |-> 0, expires_at |-> 4]
                                ELSE NoRecord]
    /\ streaks = [e \in Endps |-> IF e = "e1" THEN {0} ELSE {}]
    /\ opw = EmptyBag
    /\ posts = [k \in Msgs \X Endps |-> [Scheduled |-> 0, Manual |-> 0]]
    /\ acklog = {}
    /\ errs = 0
    /\ manuals = 0
    /\ shutdown = FALSE
    /\ loop = "running"
    /\ conf = DefaultConf
    /\ request = NoRequest
    /\ endpoint = [e \in Endps |-> [disabled |-> e # "e1", first_failure_at |-> NULL]]
    /\ cfg = [retry_schedule |-> <<>>, disable_in |-> 2, store |-> "memory"]
    /\ queue = SetToBag({[task |-> MessageBatch(m, "Scheduled"), due |-> 0] : m \in Msgs})

NextStreak ==
    \/ Wait
    \/ \E batch \in SUBSET Due : worker_loop_receive(batch)
    \/ \E s \in Slots : TaskSteps(s)
    \/ \E s \in Slots, e \in Endps : DispatchSteps(s, e)
    \/ \E s \in Slots, e \in Endps : DispatchExhausted(s, e)
    \/ \E s \in Slots, e \in Endps : DispatchDisable(s, e)

\* The deliveries of both messages during the streak.  No faults are injected.
SpecStreak == InitStreak /\ [][NextStreak]_vars

\* ------------------------------------------------ the bridge's events poller
\* Duration::clamp
clamp(x, lo, hi) == IF x < lo THEN lo ELSE IF x > hi THEN hi ELSE x

\* A backoff that doubles without bounds.
backoff_unclamped(sleep_time) == sleep_time * 2

\* The BACKOFF statements of run_inner, mod.rs:306, 319, 332, 345.
backoff(sleep_time) == clamp(sleep_time * 2, MIN_SLEEP, MAX_SLEEP)

\* The position in the stream an iterator stands for; None is its start.
position(iterator) == IF iterator = NULL THEN 0 ELSE iterator

\* What the events API answers for an iterator when it returns k messages: the
\* messages after the iterator's position, the iterator behind them, and done
\* when the stream has no more.
events(iterator, k) ==
    LET p == position(iterator) IN
    [data |-> [i \in 1 .. k |-> p + i], iterator |-> p + k, done |-> p + k = NEvents]

\* The for loop of mod.rs:284 moves to its next message, or ends.
next_msg(p) ==
    IF p.ix < Len(p.resp.data) THEN [p EXCEPT !.pc = "parse", !.ix = p.ix + 1]
    ELSE [p EXCEPT !.pc = "update", !.ix = 0]

\* mod.rs:268-283: the poll returned Ok(resp).
run_inner_poll_ok(k) ==
    /\ poller.pc = "poll"
    /\ k \in 0 .. MaxBatch
    /\ position(poller.iterator) + k <= NEvents
    /\ k = 0 => position(poller.iterator) = NEvents
    /\ poller' = next_msg([poller EXCEPT !.resp = events(poller.iterator, k), !.ix = 0])
    /\ UNCHANGED <<now, cfg, queue, slots, dests, attempts, endpoint, store, streaks, opw,
                   posts, acklog, errs, manuals, shutdown, loop, conf, request, output>>

\* mod.rs:338-346: the request failed.
run_inner_poll_err ==
    /\ poller.pc = "poll"
    /\ poller' = [poller EXCEPT !.pc = "sleep", !.sleep_time = backoff(@)]
    /\ UNCHANGED <<now, cfg, queue, slots, dests, attempts, endpoint, store, streaks, opw,
                   posts, acklog, errs, manuals, shutdown, loop, conf, request, output>>

\* mod.rs:285-311: parse_payload of the message at hand.  On Err the backoff is
\* taken and `continue` goes on with the for loop it stands in.
run_inner_parse(ok) ==
    /\ poller.pc = "parse"
    /\ poller' = IF ok THEN [poller EXCEPT !.pc = "handle"]
                 ELSE next_msg([poller EXCEPT !.sleep_time = backoff(@)])
    /\ UNCHANGED <<now, cfg, queue, slots, dests, attempts, endpoint, store, streaks, opw,
                   posts, acklog, errs, manuals, shutdown, loop, conf, request, output>>

\* mod.rs:312-320: handle(payload, output); an Err is logged and backed off.
run_inner_handle(ok) ==
    /\ poller.pc = "handle"
    /\ output' = output \cup {poller.resp.data[poller.ix]}
    /\ poller' = next_msg(IF ok THEN poller ELSE [poller EXCEPT !.sleep_time = backoff(@)])
    /\ UNCHANGED <<now, cfg, queue, slots, dests, attempts, endpoint, store, streaks, opw,
                   posts, acklog, errs, manuals, shutdown, loop, conf, request>>

\* mod.rs:322-335: the batch is through: the iterator is replaced and the sleep
\* time set.
run_inner_update ==
    /\ poller.pc = "update"
    /\ poller' = [poller EXCEPT !.pc = "sleep",
                                !.iterator = poller.resp.iterator,
                                !.sleep_time = IF poller.resp.done THEN backoff(@) ELSE NO_SLEEP,
                                !.resp = NoResp]
    /\ UNCHANGED <<now, cfg, queue, slots, dests, attempts, endpoint, store, streaks, opw,
                   posts, acklog, errs, manuals, shutdown, loop, conf, request, output>>

\* mod.rs:349-352: sleep unless sleep_time is zero, then the next iteration.
run_inner_sleep ==
    /\ poller.pc = "sleep"
    /\ poller' = [poller EXCEPT !.pc = "poll"]
    /\ UNCHANGED <<now, cfg, queue, slots, dests, attempts, endpoint, store, streaks, opw,
                   posts, acklog, errs, manuals, shutdown, loop, conf, request, output>>

\* The poller alone; the worker has nothing queued.
InitPoller ==
    /\ InitCommon
    /\ endpoint = [e \in Endps |-> [disabled |-> e # "e1", first_failure_at |-> NULL]]
    /\ cfg = [retry_schedule |-> <<1>>, disable_in |-> 2, store |-> "memory"]
    /\ queue = EmptyBag

NextPoller ==
    \/ \E k \in 0 .. MaxBatch : run_inner_poll_ok(k)
    \/ run_inner_poll_err
    \/ \E ok \in BOOLEAN : run_inner_parse(ok)
    \/ \E ok \in BOOLEAN : run_inner_handle(ok)
    \/ run_inner_update
    \/ run_inner_sleep

\* The polls of a stream of NEvents messages, with requests, parses and
\* outputs that may fail.
SpecPoller == InitPoller /\ [][NextPoller]_vars

\* ============================================================ claims
Keys == Msgs \X Endps

Terminal(status) == status \in {"Success", "Fail"}

AttemptRow(k, status, trig) ==
    [msg_id |-> k[1], endp_id |-> k[2], status |-> status, trigger_type |-> trig]

\* Attempt rows of a (message, endpoint) pair, by trigger type and status.
NumAttempts(k, trig, status) == CopiesIn(AttemptRow(k, status, trig), attempts)

NonManualAttempts(k) ==
    NumAttempts(k, "Scheduled", "Success") + NumAttempts(k, "Scheduled", "Fail")

AllAttempts(k) ==
    NonManualAttempts(k) + NumAttempts(k, "Manual", "Success")
                         + NumAttempts(k, "Manual", "Fail")

\* Nothing is queued or running for the message of pair k.
Quiet(k) ==
    /\ \A s \in Slots : slots[s].pc = "idle"
    /\ \A d \in BagToSet(queue) : d.task.msg_id # k[1]

\* C1: every HTTP POST of a dispatch results in exactly one MessageAttempt row,
\* inserted before that dispatch updates the destination: a dispatch that has
\* returned Ok has inserted its row, and once nothing is in flight the pair has
\* as many attempt rows as POSTs were sent to it (runs without faults).
C1_OneAttemptPerPost ==
    errs = 0 =>
      /\ \A s \in Slots, e \in Endps : slots[s].disp[e].pc = "ok" => slots[s].disp[e].inserted
      /\ \A k \in Keys : Quiet(k) => posts[k].Scheduled + posts[k].Manual = AllAttempts(k)

\* C2: for every (message, endpoint) the number of non-manual MessageAttempt rows
\* is at most 1 + len(retry_schedule), redeliveries after a nack included.
C2_AttemptBound ==
    \A k \in Keys : NonManualAttempts(k) <= 1 + Len(cfg.retry_schedule)

\* C3: a destination row's status changes to Success only in the update of a
\* dispatch whose response was 2xx, to Fail only in the update of a non-manual
\* dispatch whose attempt failed with attempt_count >= len(retry_schedule), and
\* in no other step.
C3_StatusWrites ==
    [][\A k \in Keys : \A i \in 1 .. Len(dests[k]) :
         dests'[k][i].status # dests[k][i].status =>
           \E s \in Slots :
             LET d == slots[s].disp[k[2]] IN
             /\ slots[s].pc = "dispatching"
             /\ slots[s].task.msg_id = k[1]
             /\ d.dest_ix = i
             /\ \/ /\ dests'[k][i].status = "Success"
                   /\ d.pc = "upd_success"
                   /\ d.res = "2xx"
                \/ /\ dests'[k][i].status = "Fail"
                   /\ d.pc = "upd_fail"
                   /\ slots[s].task.trigger_type # "Manual"
                   /\ attempt_status(d.res) = "Fail"
                   /\ slots[s].task.attempt_count >= Len(cfg.retry_schedule)]_vars

\* C4: with no infrastructure errors, once nothing more is queued or running for
\* a destination it is terminal with next_attempt = null: Fail if all of its
\* attempts failed, Success if one succeeded.
C4_FinalState ==
    \A k \in Keys : \A i \in 1 .. Len(dests[k]) :
      (errs = 0 /\ Quiet(k)) =>
        /\ Terminal(dests[k][i].status)
        /\ dests[k][i].next_attempt = NULL
        /\ (NumAttempts(k, "Scheduled", "Success") + NumAttempts(k, "Manual", "Success") = 0
              => dests[k][i].status = "Fail")
        /\ (NumAttempts(k, "Scheduled", "Success") + NumAttempts(k, "Manual", "Success") > 0
              => dests[k][i].status = "Success")

\* C5: in every reachable state a destination in Success or Fail has
\* next_attempt = null, and a non-null next_attempt means Pending or Sending.
C5_NextAttemptNull ==
    \A k \in Keys : \A i \in 1 .. Len(dests[k]) :
      Terminal(dests[k][i].status) <=> dests[k][i].next_attempt = NULL

\* C6: a non-manual dispatch that finds its destination neither Pending nor
\* Sending returns Ok with no attempt row inserted and the destination and
\* endpoint rows, the queue, the failure record and the operational webhooks
\* unchanged; a dispatch goes on to its attempt only if the task is Manual or
\* the row is Pending or Sending; a Manual task is never skipped.
C6_SkipFrame ==
    [][\A s \in Slots, e \in Endps :
         LET d == slots[s].disp[e]
             d2 == slots'[s].disp[e]
             trig == slots[s].task.trigger_type
             rows == dests[DestKey(s, e)] IN
         (slots[s].pc = "dispatching" /\ d.pc = "fetch" /\ d2.pc # "fetch") =>
           /\ d2.pc = "ok" =>
                /\ trig # "Manual"
                /\ \E i \in 1 .. Len(rows) : rows[i].status \notin {"Pending", "Sending"}
                /\ ~d2.inserted
                /\ UNCHANGED <<dests, attempts, endpoint, queue, store, opw>>
           /\ d2.pc = "insert" =>
                (trig = "Manual" \/ rows[d2.dest_ix].status \in {"Pending", "Sending"})
           /\ trig = "Manual" => d2.pc \in {"insert", "err"}]_vars

\* C6 witness: a non-manual dispatch has returned Ok without an attempt row.
C6_Skipped ==
    \E s \in Slots, e \in Endps :
      /\ slots[s].pc = "dispatching"
      /\ slots[s].disp[e].pc = "ok"
      /\ ~slots[s].disp[e].inserted
      /\ slots[s].task.trigger_type # "Manual"

\* C7: once a destination is Success or Fail, no non-manual task sends a
\* further HTTP POST for its (message, endpoint).
C7_NoPostOnceTerminal ==
    [][\A k \in Keys :
         (dests[k] # <<>> /\ \A i \in 1 .. Len(dests[k]) : Terminal(dests[k][i].status))
           => posts'[k].Scheduled = posts[k].Scheduled]_vars

\* C8: every spawned task ends having sent exactly one acknowledgement: ack
\* after process_task returned Ok, nack after it returned Err, none without.
C8_AckOrNack ==
    \A r \in acklog : \/ r.result = "Ok" /\ r.sent = "ack"
                      \/ r.result = "Err" /\ r.sent = "nack"

C10_RetryEnqueued ==
    [][\A s \in Slots, e \in Endps :
         LET d == slots[s].disp[e]
             d2 == slots'[s].disp[e]
             t == msg_task(s, e)
             k == DestKey(s, e) IN
         (/\ slots[s].pc = "dispatching"
          /\ t.trigger_type # "Manual"
          /\ t.attempt_count < Len(cfg.retry_schedule)
          /\ d.res # "-"
          /\ attempt_status(d.res) = "Fail") =>
           /\ (d.pc = "insert" /\ d2.inserted) =>
                /\ d2.pc = "upd_next"
                /\ d2.at = now + d2.duration
           /\ (d.pc = "upd_next" /\ d2.pc \notin {"upd_next", "err"}) =>
                /\ dests'[k][d.dest_ix].next_attempt = d.at
                /\ dests'[k][d.dest_ix].status = dests[k][d.dest_ix].status
                /\ UNCHANGED queue
           /\ (d.inserted /\ d2.pc = "ok") =>
                queue' = BagAdd(queue, [task |-> MessageTask(t.msg_id, e, t.attempt_count + 1,
                                                             t.trigger_type),
                                        due |-> now + d.duration])]_vars

\* C11: for every retry scheduled from a failed attempt with attempt_count = n,
\* the delay d given to the queue satisfies 0.8 * retry_schedule[n] <= d <=
\* 1.2 * retry_schedule[n], for every configured base delay, zero included: the
\* dispatch draws such a delay after inserting the attempt row and enqueues the
\* retry with it.
C11_JitterBound ==
    [][\A s \in Slots, e \in Endps :
         LET d == slots[s].disp[e]
             d2 == slots'[s].disp[e]
             t == msg_task(s, e)
             base == cfg.retry_schedule[t.attempt_count + 1] IN
         (/\ slots[s].pc = "dispatching"
          /\ t.trigger_type # "Manual"
          /\ t.attempt_count < Len(cfg.retry_schedule)
          /\ d.res \in {"4xx5xx", "transport"}) =>
           /\ (d.pc = "insert" /\ (d2 # d \/ slots'[s].pc # "dispatching")) =>
                \/ d2.pc = "err"
                \/ /\ slots'[s].pc = "dispatching"
                   /\ d2.pc = "upd_next"
                   /\ 100 * d2.duration >= (100 - JITTER_DELTA) * base
                   /\ 100 * d2.duration <= (100 + JITTER_DELTA) * base
           /\ (d.pc = "enqueue" /\ d2.pc = "ok") =>
                /\ 100 * d.duration >= (100 - JITTER_DELTA) * base
                /\ 100 * d.duration <= (100 + JITTER_DELTA) * base
                /\ queue' = BagAdd(queue, [task |-> retry_task(t), due |-> now + d.duration])]_vars

\* The steps a dispatch takes once the retries of a failed non-manual attempt
\* are exhausted, for the dispatch of slot s to endpoint e whose attempt met
\* one of the outcomes in `failed`: from the insert of the attempt row on, in
\* this order, the destination becomes {Fail, null}, one MessageAttemptExhausted
\* is emitted, process_failure_store runs once and, only when it returns a
\* first_failure_at, EndpointDisabled is emitted and the endpoint row is set to
\* {disabled, first_failure_at}; no step of it touches the queue.
ExhaustedOrder(s, e, failed) ==
    LET d == slots[s].disp[e]
        d2 == slots'[s].disp[e]
        t == msg_task(s, e)
        k == DestKey(s, e)
        moved == d2 # d /\ d2.pc # "err" IN
    (/\ slots[s].pc = "dispatching"
     /\ t.trigger_type # "Manual"
     /\ t.attempt_count >= Len(cfg.retry_schedule)
     /\ d.res \in failed
     /\ moved) =>
      /\ UNCHANGED queue
      /\ d.pc = "insert" =>
           /\ d2.pc = "upd_fail"
           /\ UNCHANGED <<dests, opw, store, endpoint>>
      /\ d.pc = "upd_fail" =>
           /\ d2.pc = "opw_exhausted"
           /\ dests'[k][d.dest_ix] = [status |-> "Fail", next_attempt |-> NULL]
           /\ UNCHANGED <<opw, store, endpoint>>
      /\ d.pc = "opw_exhausted" =>
           /\ d2.pc = "pfs_get"
           /\ opw' = BagAdd(opw, OpWebhook("MessageAttemptExhausted", t, NULL))
           /\ UNCHANGED <<dests, store, endpoint>>
      /\ d.pc = "pfs_get" =>
           /\ d2.pc \in {"pfs_set", "ok", "opw_disabled"}
           /\ UNCHANGED <<dests, opw, store, endpoint>>
      /\ d.pc = "pfs_set" =>
           /\ d2.pc = "ok"
           /\ UNCHANGED <<dests, opw, endpoint>>
      /\ d.pc = "opw_disabled" =>
           /\ d2.pc = "endp_find"
           /\ opw' = BagAdd(opw, OpWebhook("EndpointDisabled", [t EXCEPT !.msg_id = "-"], d.at))
           /\ UNCHANGED <<dests, store, endpoint>>
      /\ d.pc = "endp_find" =>
           /\ d2.pc = "endp_update"
           /\ UNCHANGED <<dests, opw, store, endpoint>>
      /\ d.pc = "endp_update" =>
           /\ d2.pc = "ok"
           /\ endpoint' = [endpoint EXCEPT ![e] = [disabled |-> TRUE, first_failure_at |-> d.at]]
           /\ UNCHANGED <<dests, opw, store>>

\* C12: when a non-manual attempt fails with attempt_count >= len(retry_schedule),
\* dispatch performs, in this order: the destination update to {Fail, null}, one
\* MessageAttemptExhausted, one call of process_failure_store and, only if that
\* returned a first_failure_at, EndpointDisabled and the endpoint row update; it
\* enqueues no further task.  A failed attempt is one whose row has status Fail.
C12_ExhaustedOrder ==
    [][\A s \in Slots, e \in Endps :
         ExhaustedOrder(s, e, {r \in Responses \ {"body_err"} : attempt_status(r) = "Fail"})]_vars

\* The store holds a failure record for endpoint e: one was set and has neither
\* been deleted nor run out of its TTL.
HoldsRecord(e) == store[e] # NoRecord /\ ~is_expired(store[e], now)

\* C13: process_failure_store called at time now: with no record in the store
\* it stores first_failure_at = now with TTL 2 * disable_in and returns None;
\* with a record and now - first_failure_at > disable_in it returns that
\* first_failure_at and leaves the record unchanged; with a record and
\* now - first_failure_at <= disable_in it returns None and leaves the record
\* unchanged.
C13_FailureStore ==
    [][\A s \in Slots, e \in Endps :
         LET d == slots[s].disp[e]
             d2 == slots'[s].disp[e] IN
         (slots[s].pc = "dispatching" /\ d2 # d /\ d2.pc # "err") =>
           /\ (d.pc = "pfs_get" /\ ~HoldsRecord(e)) =>
                /\ d2.pc = "pfs_set"
                /\ d2.at = now
           /\ (d.pc = "pfs_get" /\ HoldsRecord(e)
                 /\ now - store[e].first_failure_at > cfg.disable_in) =>
                /\ d2.pc = "opw_disabled"
                /\ d2.at = store[e].first_failure_at
                /\ UNCHANGED store
           /\ (d.pc = "pfs_get" /\ HoldsRecord(e)
                 /\ now - store[e].first_failure_at <= cfg.disable_in) =>
                /\ d2.pc = "ok"
                /\ UNCHANGED <<store, opw, endpoint>>
           /\ d.pc = "pfs_set" =>
                /\ d2.pc = "ok"
                /\ store' = [store EXCEPT ![e] = [first_failure_at |-> d.at,
                                                   expires_at |-> now + 2 * cfg.disable_in]]
                /\ UNCHANGED <<opw, endpoint>>]_vars

\* C13 witness: process_failure_store has returned the first_failure_at of the
\* record the store holds, called disable_in + 1 after that first failure.
C13_DisableReturned ==
    \E s \in Slots, e \in Endps :
      /\ slots[s].pc = "dispatching"
      /\ slots[s].disp[e].pc = "opw_disabled"
      /\ HoldsRecord(e)
      /\ slots[s].disp[e].at = store[e].first_failure_at
      /\ now = slots[s].disp[e].at + cfg.disable_in + 1

\* A delivery to endpoint e has succeeded.
Succeeded(e) ==
    \E m \in Msgs, trig \in {"Scheduled", "Manual"} : NumAttempts(<<m, e>>, trig, "Success") > 0

\* C14: a successful delivery, of any trigger type, deletes the failure record of
\* its endpoint, without error when there is none; the first
\* process_failure_store call after it (no call has stamped a first failure
\* since) returns None and starts a new streak.
C14_SuccessClears ==
    [][\A s \in Slots, e \in Endps :
         LET d == slots[s].disp[e]
             d2 == slots'[s].disp[e] IN
         (slots[s].pc = "dispatching" /\ d2 # d /\ d2.pc # "err") =>
           /\ (d.pc = "insert" /\ d.res = "2xx") => d2.pc = "upd_success"
           /\ (d.pc = "upd_success" /\ d.res = "2xx") => d2.pc = "store_delete"
           /\ (d.pc = "store_delete" /\ d.res = "2xx") =>
                /\ d2.pc = "ok"
                /\ store'[e] = NoRecord
           /\ (d.pc = "pfs_get" /\ Succeeded(e) /\ streaks[e] = {}) =>
                /\ d2.pc = "pfs_set"
                /\ d2.at = now]_vars

\* C15: an endpoint row is set to disabled = true only at a moment when more
\* than disable_in has elapsed since the first failure of a streak that no
\* successful delivery to that endpoint has interrupted, in every interleaving
\* of the dispatches to that endpoint.
C15_DisableAfterGrace ==
    [][\A s \in Slots, e \in Endps :
         (/\ slots[s].pc = "dispatching"
          /\ slots[s].disp[e].pc = "endp_update"
          /\ slots'[s].disp[e].pc = "ok"
          /\ endpoint'[e].disabled) =>
           \E f \in streaks[e] : now - f > cfg.disable_in]_vars

\* C16: first_failure_at is written to the shared store only if no record exists
\* at that moment: with concurrent process_failure_store calls for one key, a
\* record already stored is not overwritten, and its TTL not restarted, until it
\* is deleted or expires.
C16_NoOverwrite ==
    [][\A e \in Endps :
         (HoldsRecord(e) /\ store'[e] # store[e]) => store'[e] = NoRecord]_vars

\* C17: an endpoint row written with disabled = true by the worker has
\* first_failure_at set, equal to the first_failure_at its dispatch read from
\* the failure record and reported as fail_since in its EndpointDisabled event.
C17_DisabledRow ==
    [][\A s \in Slots, e \in Endps :
         LET d == slots[s].disp[e]
             d2 == slots'[s].disp[e] IN
         /\ (endpoint'[e] # endpoint[e]) =>
              \E s1 \in Slots :
                LET d1 == slots[s1].disp[e] IN
                /\ slots[s1].pc = "dispatching"
                /\ d1.pc = "endp_update"
                /\ slots'[s1].disp[e].pc = "ok"
                /\ endpoint'[e].disabled
                /\ endpoint'[e].first_failure_at # NULL
                /\ endpoint'[e].first_failure_at = d1.at
                /\ \E ev \in BagToSet(opw) :
                     /\ ev.kind = "EndpointDisabled"
                     /\ ev.endpoint_id = e
                     /\ ev.fail_since = d1.at
         /\ (slots[s].pc = "dispatching" /\ d2 # d /\ d2.pc # "err") =>
              /\ (d.pc = "pfs_get" /\ d2.pc = "opw_disabled") =>
                   /\ HoldsRecord(e)
                   /\ d2.at = store[e].first_failure_at
              /\ d.pc = "opw_disabled" =>
                   /\ d2.at = d.at
                   /\ opw' = BagAdd(opw, OpWebhook("EndpointDisabled",
                                                   [msg_task(s, e) EXCEPT !.msg_id = "-"], d.at))
              /\ d.pc = "endp_find" => d2.at = d.at
              /\ d.pc = "endp_update" =>
                   endpoint'[e] = [disabled |-> TRUE, first_failure_at |-> d.at]]_vars

\* C17 witness: the worker has disabled e1; its row carries the first_failure_at
\* that an EndpointDisabled event reports.
C17_Disabled ==
    /\ endpoint["e1"].disabled
    /\ endpoint["e1"].first_failure_at # NULL
    /\ \E ev \in BagToSet(opw) :
         /\ ev.kind = "EndpointDisabled"
         /\ ev.endpoint_id = "e1"
         /\ ev.fail_since = endpoint["e1"].first_failure_at

\* C18: a failure record expires 2 * disable_in after it was stored and later
\* failures do not extend it; a process_failure_store call made more than
\* 2 * disable_in after the record was stored finds no record, returns None and
\* starts a new streak; so process_failure_store tells to disable only for a
\* failure more than disable_in and at most 2 * disable_in after the first
\* recorded failure of the streak.
C18_RecordExpiry ==
    [][\A s \in Slots, e \in Endps :
         LET d == slots[s].disp[e]
             d2 == slots'[s].disp[e] IN
         /\ (HoldsRecord(e) /\ store'[e] # NoRecord) =>
              store'[e].expires_at = store[e].expires_at
         /\ (slots[s].pc = "dispatching" /\ d.pc = "pfs_get" /\ d2 # d /\ d2.pc # "err") =>
              /\ (store[e] # NoRecord /\ now > store[e].expires_at) =>
                   /\ d2.pc = "pfs_set"
                   /\ d2.at = now
              /\ d2.pc = "opw_disabled" =>
                   /\ now - d2.at > cfg.disable_in
                   /\ now - d2.at <= 2 * cfg.disable_in]_vars

\* C19: with the None backend as shared store (get answers None whatever was
\* set, set and delete succeed without storing) process_failure_store returns
\* None on every call: no dispatch is told to disable, no endpoint row is
\* disabled by the worker and no EndpointDisabled event is emitted.
C19_NoneNeverDisables ==
    cfg.store = "none" =>
      /\ \A s \in Slots, e \in Endps :
           slots[s].disp[e].pc \notin {"opw_disabled", "endp_find", "endp_update"}
      /\ \A e \in Endps : endpoint[e].first_failure_at = NULL
      /\ \A ev \in BagToSet(opw) : ev.kind # "EndpointDisabled"

\* C19 witness: with the None backend both messages have exhausted their
\* attempts to e1, process_failure_store having been called at t = 0 and again
\* at t = disable_in + 1, and e1 is still enabled.
C19_TwoFailuresApart ==
    /\ cfg.store = "none"
    /\ \A m \in Msgs : Len(dests[<<m, "e1">>]) = 1 /\ dests[<<m, "e1">>][1].status = "Fail"
    /\ {0, cfg.disable_in + 1} \subseteq streaks["e1"]
    /\ \A s \in Slots : slots[s].pc = "idle"
    /\ ~endpoint["e1"].disabled

\* What a Manual dispatch of slot s to endpoint e does once its attempt has met
\* one of the outcomes in `failed`: it inserts the attempt row and returns,
\* leaving the queue, the destination, the failure record, the endpoint row and
\* the operational webhooks as they are.
ManualFailureFrame(s, e, failed) ==
    LET d == slots[s].disp[e]
        d2 == slots'[s].disp[e]
        t == msg_task(s, e) IN
    (/\ slots[s].pc = "dispatching"
     /\ t.trigger_type = "Manual"
     /\ d.res \in failed
     /\ d.pc # "fetch"
     /\ d2 # d
     /\ d2.pc # "err") =>
      /\ d.pc = "insert"
      /\ d2.pc = "ok"
      /\ d2.inserted
      /\ attempts' = BagAdd(attempts, AttemptRow(DestKey(s, e), "Fail", "Manual"))
      /\ UNCHANGED <<queue, dests, store, endpoint, opw>>

\* C20: when an attempt with trigger type Manual fails, dispatch inserts the
\* attempt row and then stops: no retry is enqueued, the destination's status
\* and next_attempt stay as they are, the failure record is neither read nor
\* written, the endpoint row is unchanged and no operational webhook is
\* emitted.  A failed attempt is one whose row has status Fail.
C20_ManualFailureFrame ==
    [][\A s \in Slots, e \in Endps :
         ManualFailureFrame(s, e, {r \in Responses \ {"body_err"} : attempt_status(r) = "Fail"})]_vars

\* What a non-manual dispatch of slot s to endpoint e does about operational
\* webhooks once its attempt has met one of the outcomes in `failed` with
\* retries left: with attempt_count 0 to 3 no step of it emits anything; with
\* attempt_count = 4 it emits one MessageAttemptFailing, the first for its
\* (message, endpoint), after setting next_attempt and before enqueueing the
\* retry.
FailingEvent(s, e, failed) ==
    LET d == slots[s].disp[e]
        d2 == slots'[s].disp[e]
        t == msg_task(s, e)
        ev == OpWebhook("MessageAttemptFailing", t, NULL) IN
    (/\ slots[s].pc = "dispatching"
     /\ t.trigger_type # "Manual"
     /\ t.attempt_count < Len(cfg.retry_schedule)
     /\ d.res \in failed
     /\ d.pc # "fetch"
     /\ d2 # d) =>
      /\ t.attempt_count < OP_WEBHOOKS_SEND_FAILING_EVENT_AFTER => UNCHANGED opw
      /\ t.attempt_count = OP_WEBHOOKS_SEND_FAILING_EVENT_AFTER =>
           /\ d.pc = "insert" => d2.pc = "upd_next" /\ UNCHANGED opw
           /\ d.pc = "upd_next" => d2.pc = "opw_failing" /\ UNCHANGED opw
           /\ d.pc = "opw_failing" =>
                /\ d2.pc = "enqueue"
                /\ CopiesIn(ev, opw) = 0
                /\ opw' = BagAdd(opw, ev)
           /\ d.pc = "enqueue" =>
                /\ d2.pc = "ok"
                /\ CopiesIn(ev, opw) = 1
                /\ UNCHANGED opw
                /\ queue' = BagAdd(queue, [task |-> retry_task(t), due |-> now + d.duration])

\* C21: over a run of consecutive failed scheduled attempts to a (message,
\* endpoint), the failures with attempt_count 0 to 3 emit no operational
\* webhook, and the failed attempt with attempt_count = 4 emits exactly one
\* MessageAttemptFailing when it schedules the next retry.  A failed attempt is
\* one whose row has status Fail.
C21_FailingEvent ==
    [][\A s \in Slots, e \in Endps :
         FailingEvent(s, e, {r \in Responses \ {"body_err"} : attempt_status(r) = "Fail"})]_vars

NumQueued(q, t) ==
    LET ds == {d \in BagToSet(q) : d.task = t} IN
    IF ds = {} THEN 0 ELSE BagCardinality([d \in ds |-> q[d]])

\* C23: if the shutdown flag is set when a batch has been received, the worker
\* loop nacks every delivery of that batch (the queue holds each task again and
\* nothing else is acknowledged), starts process_task for none of them, acks
\* none, and leaves the loop.
C23_ShutdownNacks ==
    [][/\ (shutdown /\ loop = "running") =>
            \A s \in Slots : slots[s].pc = "idle" => slots'[s].pc = "idle"
       /\ (shutdown /\ loop = "running" /\ loop' \notin {"running", "sleeping"}) =>
         /\ loop' = "exited"
         /\ UNCHANGED slots
         /\ \A d \in BagToSet(queue) \cup BagToSet(queue') :
              NumQueued(queue', d.task) = NumQueued(queue, d.task)
         /\ \A r \in acklog' \ acklog : r.sent = "nack" /\ r.result = "shutdown"
         /\ \A d \in BagToSet(queue) :
              CopiesIn(d, queue') < CopiesIn(d, queue) =>
                [kind |-> d.task.kind, result |-> "shutdown", sent |-> "nack"] \in acklog']_vars

\* C23 witness: the loop has left on shutdown having nacked a retry it had
\* received, which the queue holds again, while no task was spawned for it.
C23_NackedRetry ==
    /\ shutdown
    /\ loop = "exited"
    /\ [kind |-> "MessageV1", result |-> "shutdown", sent |-> "nack"] \in acklog
    /\ \E d \in BagToSet(queue) : d.task.kind = "MessageV1" /\ d.task.attempt_count = 1
    /\ \A s \in Slots : slots[s].pc = "idle"

\* C24: once the SHUTTING_DOWN flag is set, the worker loop eventually exits
\* under fair scheduling, whatever the queue consumer returns afterwards:
\* batches, empty batches or errors.
C24_ShutdownExits == shutdown ~> (loop = "exited")

\* C25: in every reachable state there is at most one MessageDestination row
\* per (msg_id, endp_id): rows are inserted only by the processing of a
\* MessageBatch, one {Sending, next_attempt = now} per filtered endpoint, never
\* by that of a MessageV1, also when a MessageBatch delivery is nacked and
\* processed again.
C25_OneDestination ==
    [][\A k \in Keys :
         /\ Len(dests'[k]) <= 1
         /\ Len(dests'[k]) # Len(dests[k]) =>
              /\ dests'[k] = Append(dests[k], [status |-> "Sending", next_attempt |-> now])
              /\ \E s \in Slots :
                   /\ slots[s].pc = "insert"
                   /\ slots'[s].pc = "dispatching"
                   /\ slots[s].task.kind = "MessageBatch"
                   /\ slots[s].task.msg_id = k[1]
                   /\ k[2] \in slots[s].endpoints]_vars

\* The MessageBatch of message m has been processed: its destinations are
\* inserted and no spawned task is working on it any more.
BatchProcessed(m) ==
    /\ \E e \in Endps : dests[<<m, e>>] # <<>>
    /\ \A s \in Slots :
         slots[s].pc # "idle" => ~(slots[s].task.kind = "MessageBatch" /\ slots[s].task.msg_id = m)

\* C26: the expansion of a MessageBatch is one-shot: once a MessageBatch task
\* has been processed (destinations inserted, dispatches run) the queue never
\* again holds a MessageBatch task for that message, only MessageV1 tasks.
C26_OneShotExpansion ==
    \A m \in Msgs :
      BatchProcessed(m) =>
        \A d \in BagToSet(queue) : d.task.msg_id = m => d.task.kind = "MessageV1"

\* A string with its upper-case letters in lower case.
Lower(k) == [i \in 1 .. Len(k) |-> IF k[i] \in 65 .. 90 THEN k[i] + 32 ELSE k[i]]

\* A valid HTTP header name.
ValidName(k) == k # <<>> /\ \A i \in 1 .. Len(k) : is_tchar(k[i])

\* A configured pair whose name is a valid HTTP header name and whose value is
\* a valid header value.
ValidPair(p) ==
    /\ ValidName(p[1])
    /\ \A i \in 1 .. Len(p[2]) : p[2][i] = 9 \/ (p[2][i] >= 32 /\ p[2][i] # 127)

\* Header set h carries pair p: it has p's value under p's name, names being in
\* lower case in a header set.
Carries(h, p) == <<Lower(p[1]), p[2]>> \in h

\* What generate_msg_headers returns for the configured pairs in `confd`: an
\* invalid pair is absent and did not abort the construction (the three
\* platform headers and the valid pairs are there), a valid pair is present
\* with its configured value.
ConfiguredHeaders(confd) ==
    request.by = "dispatch" =>
      /\ \A p \in confd :
           IF ValidPair(p) THEN Carries(request.generated, p)
           ELSE /\ ~Carries(request.generated, p)
                /\ ~ValidName(p[1]) => \A q \in request.generated : q[1] # p[1]
      /\ \A n \in {SVIX_ID, SVIX_TIMESTAMP, SVIX_SIGNATURE} :
           ~conf.whitelabel => \E q \in request.generated : q[1] = n
      /\ \A n \in {WEBHOOK_ID, WEBHOOK_TIMESTAMP, WEBHOOK_SIGNATURE} :
           conf.whitelabel => \E q \in request.generated : q[1] = n

\* C27: generate_msg_headers, for any map of configured headers: every pair with
\* an invalid name or an invalid value is absent from the output and does not
\* abort header construction, and every other configured pair is present in the
\* output with its configured value.
C27_ConfiguredHeaders == ConfiguredHeaders(conf.headers)

\* The names of the platform headers of an attempt.
PlatformNames ==
    (IF conf.whitelabel THEN {WEBHOOK_ID, WEBHOOK_TIMESTAMP, WEBHOOK_SIGNATURE}
     ELSE {SVIX_ID, SVIX_TIMESTAMP, SVIX_SIGNATURE}) \cup {USER_AGENT_NAME}

\* The request of an attempt carries the configured value of every valid
\* configured header whose name is one of `names`.
Overrides(names) ==
    request.by = "dispatch" =>
      \A p \in conf.headers :
        (ValidPair(p) /\ Lower(p[1]) \in names) => Carries(request.headers, p)

\* C28: in the headers of an outbound attempt, a valid configured header whose
\* name is that of a platform header (the id, timestamp and signature headers,
\* and user-agent) overwrites the platform default: the request carries the
\* configured value for that name.
C28_PlatformOverride == Overrides(PlatformNames)

RECURSIVE Split(_, _)
\* The pieces of string str between the occurrences of byte sep.
Split(str, sep) ==
    IF \A i \in 1 .. Len(str) : str[i] # sep THEN <<str>>
    ELSE LET i == CHOOSE j \in 1 .. Len(str) :
                    str[j] = sep /\ \A l \in 1 .. j - 1 : str[l] # sep
         IN  <<SubSeq(str, 1, i - 1)>> \o Split(SubSeq(str, i + 1, Len(str)), sep)

\* String str begins with string pre.
StartsWith(str, pre) == Len(str) >= Len(pre) /\ SubSeq(str, 1, Len(pre)) = pre

\* C29: sign_msg returns one token per supplied key, in the order supplied and
\* separated by single spaces, each token tagged v1 for an HMAC key and v1a for
\* an Ed25519 key, the empty string for an empty key list; dispatch supplies
\* the endpoint's current key first, then the old signing keys in their stored
\* order.
C29_SignatureTokens ==
    request.by # "none" =>
      LET keys == request.keys
          tokens == Split(request.signatures, 32) IN
      /\ keys = <<>> => request.signatures = <<>>
      /\ keys # <<>> =>
           /\ Len(tokens) = Len(keys)
           /\ \A i \in 1 .. Len(keys) :
                /\ keys[i].type = "Hmac256" =>
                     /\ StartsWith(tokens[i], <<118, 49, 44>>)
                     /\ tokens[i][4] = keys[i].id
                /\ keys[i].type = "Ed25519" =>
                     /\ StartsWith(tokens[i], <<118, 49, 97, 44>>)
                     /\ tokens[i][5] = keys[i].id
      /\ request.by = "dispatch" =>
           /\ keys[1] = conf.key
           /\ Len(keys) = 1 + Len(conf.old_signing_keys.keys)
           /\ \A i \in 1 .. Len(conf.old_signing_keys.keys) :
                keys[i + 1] = conf.old_signing_keys.keys[i]

\* C29 witness: dispatch has signed with an Ed25519 current key and two old
\* keys, the older of them an HMAC key.
C29_ThreeKeys ==
    /\ request.by = "dispatch"
    /\ Len(request.keys) = 3
    /\ request.keys[1].type = "Ed25519"
    /\ request.keys[2].type = "Hmac256"
    /\ conf.headers = {}

\* C30: once a destination's status is Success it never becomes Fail, in every
\* interleaving of concurrent dispatches for the same (message, endpoint): a
\* duplicate delivery, a redelivered batch, or a manual retry running
\* alongside a scheduled attempt.
C30_SuccessStays ==
    [][\A k \in Keys : \A i \in 1 .. Len(dests[k]) :
         dests[k][i].status = "Success" => dests'[k][i].status # "Fail"]_vars

\* What becomes of the retry of a non-manual dispatch of slot s to endpoint e
\* whose attempt met one of the outcomes in `failed` with retries left: the
\* dispatch returns Ok only from the enqueue of the MessageV1 task with
\* attempt_count + 1 for its (message, endpoint), which the queue then holds.
RetryKept(s, e, failed) ==
    LET d == slots[s].disp[e]
        d2 == slots'[s].disp[e]
        t == msg_task(s, e) IN
    (/\ slots[s].pc = "dispatching"
     /\ t.trigger_type # "Manual"
     /\ t.attempt_count < Len(cfg.retry_schedule)
     /\ d.res \in failed
     /\ (d.pc = "insert" \/ d.inserted)
     /\ d2.pc = "ok") =>
      /\ d.pc = "enqueue"
      /\ queue' = BagAdd(queue, [task |-> MessageTask(t.msg_id, e, t.attempt_count + 1,
                                                      t.trigger_type),
                                 due |-> now + d.duration])

\* The acknowledgement a spawned task sends: an ack only when each of its
\* dispatches returned Ok, a nack (the queue has the delivery again) when one
\* returned Err.
AckAfterDispatches(s) ==
    (slots[s].pc = "returned" /\ slots'[s].pc = "idle") =>
      /\ queue' = queue => \A e \in Endps : slots[s].disp[e].pc \in {"none", "ok"}
      /\ (\E e \in Endps : slots[s].disp[e].pc = "err") =>
           /\ queue' = BagAdd(queue, [task |-> slots[s].task, due |-> 0])
           /\ [kind |-> slots[s].task.kind, result |-> "Err", sent |-> "nack"] \in acklog'

\* C31: no retry is lost between the worker and the queue: whenever a delivery
\* whose non-manual attempt failed with attempt_count < len(retry_schedule) is
\* acked, the queue has already accepted a MessageV1 task for the same
\* (message, endpoint) with attempt_count + 1; if that enqueue fails, the
\* delivery is nacked instead of acked.  A failed attempt is one whose row has
\* status Fail.
C31_RetryKept ==
    [][/\ \A s \in Slots, e \in Endps :
            RetryKept(s, e, {r \in Responses \ {"body_err"} : attempt_status(r) = "Fail"})
       /\ \A s \in Slots : AckAfterDispatches(s)]_vars

\* C32: within one process_task the dispatches to the endpoints of a message
\* are independent: the step in which one dispatch returns an infrastructure
\* error leaves every other dispatch of the task, and the task itself, where
\* they were, and process_task returns its result only when every dispatch has
\* run to completion, the result being Err exactly when one of them did.
C32_DispatchesIndependent ==
    [][\A s \in Slots :
         /\ \A e \in Endps :
              (/\ slots[s].pc = "dispatching"
               /\ slots[s].disp[e].pc # "err"
               /\ slots'[s].disp[e].pc = "err") =>
                /\ slots'[s].pc = "dispatching"
                /\ \A o \in Endps \ {e} : slots'[s].disp[o] = slots[s].disp[o]
         /\ (slots[s].pc = "dispatching" /\ slots'[s].pc = "returned") =>
              /\ \A e \in Endps : slots[s].disp[e].pc \in {"none", "ok", "err"}
              /\ slots'[s].disp = slots[s].disp
              /\ slots'[s].result = "Err" <=> \E e \in Endps : slots[s].disp[e].pc = "err"]_vars

\* C32 witness: process_task has returned Err for the batch of m1: the dispatch to
\* e1 returned an infrastructure error before inserting an attempt, and the
\* dispatch to e2 has sent its POST, inserted its attempt row and returned Ok.
C32_OtherCompleted ==
    \E s \in Slots :
      /\ slots[s].pc = "returned"
      /\ slots[s].result = "Err"
      /\ slots[s].disp["e1"].pc = "err"
      /\ ~slots[s].disp["e1"].inserted
      /\ slots[s].disp["e2"].pc = "ok"
      /\ slots[s].disp["e2"].inserted
      /\ posts[<<"m1", "e2">>].Scheduled = 1
      /\ AllAttempts(<<"m1", "e2">>) = 1

\* The tables and queues a task may write.
Effects == <<posts, attempts, dests, queue, opw, store, endpoint>>

\* Slot s runs a MessageV1 task none of whose endpoints passed the filter.
NoEndpoint(s, pc) ==
    /\ slots[s].pc = pc
    /\ slots[s].task.kind = "MessageV1"
    /\ \A e \in Endps : slots[s].disp[e].pc = "none"

\* C33: a MessageV1 task whose target endpoint is not in the message's filtered
\* endpoint set at processing time (the endpoint was disabled since the task
\* was enqueued) starts no dispatch, so that no step of it makes an HTTP call,
\* inserts an attempt, changes a destination row or enqueues anything;
\* process_task returns Ok and the delivery is acked.
C33_StaleTaskNoop ==
    [][\A s \in Slots :
         /\ (/\ slots[s].pc = "fetch"
             /\ slots[s].task.kind = "MessageV1"
             /\ endpoint[slots[s].task.endpoint_id].disabled
             /\ slots'[s] # slots[s]) =>
              /\ slots'[s].pc = "dispatching"
              /\ \A e \in Endps : slots'[s].disp[e].pc = "none"
              /\ UNCHANGED Effects
         /\ (NoEndpoint(s, "dispatching") /\ slots'[s] # slots[s]) =>
              /\ slots'[s].pc = "returned"
              /\ slots'[s].result = "Ok"
              /\ UNCHANGED Effects
         /\ (NoEndpoint(s, "returned") /\ slots'[s] # slots[s]) =>
              /\ slots[s].result = "Ok"
              /\ slots'[s].pc = "idle"
              /\ [kind |-> "MessageV1", result |-> "Ok", sent |-> "ack"] \in acklog'
              /\ UNCHANGED Effects]_vars

\* C33 witness: the retry of m1 to e1 was received after e1 had been disabled
\* and has been acked; the only POST and the only attempt row of the pair are
\* those of the first attempt, the destination still waits for the retry and
\* nothing is queued.
C33_RetryDropped ==
    /\ endpoint["e1"].disabled
    /\ [kind |-> "MessageV1", result |-> "Ok", sent |-> "ack"] \in acklog
    /\ manuals = 0
    /\ posts[<<"m1", "e1">>].Scheduled = 1
    /\ AllAttempts(<<"m1", "e1">>) = 1
    /\ dests[<<"m1", "e1">>][1].status = "Sending"
    /\ queue = EmptyBag
    /\ \A s \in Slots : slots[s].pc = "idle"

\* The attempt of the dispatch of slot s to endpoint e met one of the outcomes
\* in `failed`, as a non-manual attempt with the retry schedule exhausted.
FailedExhausted(s, e, failed) ==
    /\ slots[s].pc = "dispatching"
    /\ slots[s].disp[e].res \in failed
    /\ msg_task(s, e).trigger_type # "Manual"
    /\ msg_task(s, e).attempt_count >= Len(cfg.retry_schedule)

\* Who touches the failure record of an endpoint, `failed` being the outcomes
\* of a failed attempt: a record is created, and the store read for one (a
\* first-failure stamp taken), only in a step of a failed non-manual dispatch
\* whose retries are exhausted, the stamp being the time of that call; no step
\* of a dispatch whose failed attempt has a retry left or is manual reaches
\* process_failure_store or changes the record.
FailureRecordAccess(failed) ==
    /\ \A e \in Endps :
         /\ (store'[e] # store[e] /\ store'[e] # NoRecord) =>
              \E s \in Slots :
                /\ FailedExhausted(s, e, failed)
                /\ slots[s].disp[e].pc = "pfs_set"
                /\ store'[e].first_failure_at = slots[s].disp[e].at
         /\ \A f \in streaks'[e] \ streaks[e] :
              /\ f = now
              /\ \E s \in Slots :
                   /\ FailedExhausted(s, e, failed)
                   /\ slots[s].disp[e].pc = "pfs_get"
    /\ \A s \in Slots, e \in Endps :
         LET d == slots[s].disp[e]
             d2 == slots'[s].disp[e] IN
         (/\ slots[s].pc = "dispatching"
          /\ d.res \in failed
          /\ d.pc # "fetch"
          /\ ~FailedExhausted(s, e, failed)
          /\ d2 # d) =>
           /\ d2.pc \notin {"pfs_get", "pfs_set", "opw_disabled"}
           /\ UNCHANGED store

\* C34: the failure record of an endpoint is read or created only by a
\* non-manual attempt that failed with the retry schedule exhausted: a failed
\* attempt that still has a retry scheduled, and a failed manual attempt, never
\* create, read or modify the failure record, so that a streak's
\* first_failure_at is the time of an exhaustion.  A failed attempt is one
\* whose row has status Fail.
C34_FailureRecordAccess ==
    [][FailureRecordAccess({r \in Responses \ {"body_err"} : attempt_status(r) = "Fail"})]_vars

\* C35: for each endpoint and each failure streak, the EndpointDisabled event
\* is emitted at most once and the endpoint row is set to disabled at most
\* once, however many messages exhaust their retry schedules against that
\* endpoint, one after the other or concurrently.  A streak is known by its
\* first_failure_at, which the event carries as fail_since.
C35_DisabledOnce ==
    [][/\ \A ev \in BagToSet(opw') :
            ev.kind = "EndpointDisabled" => CopiesIn(ev, opw') <= 1
       /\ \A s \in Slots, e \in Endps :
            (/\ slots[s].pc = "dispatching"
             /\ slots[s].disp[e].pc = "endp_update"
             /\ slots'[s].disp[e].pc = "ok") =>
              ~(endpoint[e].disabled
                  /\ endpoint[e].first_failure_at = slots[s].disp[e].at)]_vars

\* Every message of the batch at hand has been handed to the output.
BatchHandedOver ==
    \A i \in 1 .. Len(poller.resp.data) : poller.resp.data[i] \in output

\* C36: the bridge's events poller replaces its iterator with the one returned
\* by a poll only after every message of that poll's batch has been parsed and
\* handed to the output; when the poll request itself fails, the iterator is
\* left unchanged and the same iterator is used for the next poll.
C36_IteratorAfterBatch ==
    [][/\ (poller'.iterator # poller.iterator \/ (poller.pc = "update" /\ poller' # poller)) =>
            /\ poller.pc = "update"
            /\ poller'.iterator = poller.resp.iterator
            /\ BatchHandedOver
       /\ (poller.pc = "poll" /\ poller' # poller /\ poller'.resp = NoResp) =>
            /\ poller'.pc = "sleep"
            /\ poller'.iterator = poller.iterator
       /\ (poller.pc = "sleep" /\ poller' # poller) =>
            /\ poller'.pc = "poll"
            /\ poller'.iterator = poller.iterator]_vars

\* C37: when parsing or transforming a polled message fails, the bridge's
\* events poller backs off and retries the current iterator: the step leaves
\* the batch for the sleep and the next poll with the iterator as it was, so
\* that the iterator is never advanced past a batch with a message that was
\* not parsed (and so never reached the output) and the next poll fetches the
\* failed message again.
C37_ParseFailureRetries ==
    [][/\ (poller.pc = "parse" /\ poller' # poller /\ poller'.pc # "handle") =>
            /\ poller'.sleep_time = IF poller.sleep_time = 0 THEN 10
                                    ELSE IF 2 * poller.sleep_time > 300000 THEN 300000
                                    ELSE 2 * poller.sleep_time
            /\ poller'.pc = "sleep"
            /\ poller'.iterator = poller.iterator
       /\ poller'.iterator # poller.iterator =>
            \A i \in 1 .. Len(poller.resp.data) : poller.resp.data[i] \in output]_vars

\* The sleep time after a backoff step: doubled within 10 ms and 300 s.
Doubled(sleep_time) ==
    IF sleep_time = 0 THEN 10
    ELSE IF 2 * sleep_time > 300000 THEN 300000 ELSE 2 * sleep_time

\* C38: in every iteration of the bridge's events poller the sleep time is zero
\* or between 10 ms and 300 s inclusive; each backoff step doubles it within
\* those bounds (zero becomes 10 ms), a failed poll and a batch marked done
\* being backoff steps; and it is reset to zero only after a successfully
\* fetched batch that is not marked done.
C38_SleepTime ==
    [][/\ poller'.sleep_time = 0 \/ (poller'.sleep_time >= 10 /\ poller'.sleep_time <= 300000)
       /\ poller'.sleep_time # poller.sleep_time =>
            \/ poller'.sleep_time = Doubled(poller.sleep_time)
            \/ /\ poller'.sleep_time = 0
               /\ poller.pc = "update"
               /\ poller.resp.iterator # NULL
               /\ ~poller.resp.done
       /\ (poller.pc = "poll" /\ poller'.pc = "sleep") =>
            poller'.sleep_time = Doubled(poller.sleep_time)
       /\ (poller.pc = "update" /\ poller'.pc = "sleep") =>
            poller'.sleep_time = IF poller.resp.done THEN Doubled(poller.sleep_time) ELSE 0]_vars

\* C38 witness: the stream is read to its end and every poll since has found it
\* done; the sleep time has been doubled up to 300 s.
C38_MaxSleep ==
    /\ poller.pc = "sleep"
    /\ poller.sleep_time = 300000
    /\ poller.iterator = NEvents
    /\ output = 1 .. NEvents
====
